---------------------------- MODULE Spec2Model ----------------------------
(***************************************************************************)
(* Model of the pricing / market-aggregation core of inventory-ai:         *)
(*   - ApifyService.calculateSimilarity and ApifyService.getMarketData     *)
(*     (src/inventory-ai/src/lib/apify.ts)                                 *)
(*   - DynamicPricingService.analyzePricing and its helpers                *)
(*     (src/inventory-ai/src/lib/dynamic-pricing.ts)                       *)
(*                                                                         *)
(* JavaScript numbers are modelled as exact rationals <<n, d>> in lowest   *)
(* terms with d > 0; <<0, 0>> stands for NaN (every comparison with it is  *)
(* false).  Strings that the code inspects character by character are     *)
(* sequences of one-character strings.                                     *)
(***************************************************************************)
EXTENDS Integers, Sequences, FiniteSets, TLC

VARIABLES
    op,             \* which entry point this behaviour exercises
    pc,             \* position inside the entry point
    title1, title2, \* calculateSimilarity arguments
    simResult,      \* calculateSimilarity return value
    productData,    \* analyzePricing argument: category, brand, condition
    marketData,     \* analyzePricing argument: ebay / googleShopping listings
    options,        \* analyzePricing argument: strategy, competitivePosition
    env,            \* what the external collaborators will answer
    enhanced,       \* enhancedMarketData.facebook.listings once gathered
    locals,         \* analyzePricing locals computed before the trend await
    analysis,       \* the PricingAnalysis returned (or the failure)
    mdOptions,      \* getMarketData options
    mdResults,      \* getMarketData `results` object
    mdPending,      \* scrape promises not yet settled
    labelArgs,      \* determineCompetitivePosition arguments
    label,          \* determineCompetitivePosition return value
    second,         \* a second analyzePricing call on the same service object
    callArgs,       \* arguments of a function called on its own
    callResult      \* its return value

labelVars == <<labelArgs, label>>
auxVars   == <<second, callArgs, callResult>>

vars == <<op, pc, title1, title2, simResult, productData, marketData, options,
          env, enhanced, locals, analysis, mdOptions, mdResults, mdPending,
          labelArgs, label, second, callArgs, callResult>>

-----------------------------------------------------------------------------
(* Bounds of the model *)

MaxTitleLen  == 3   \* longest title tried
MaxListings  == 2   \* longest eBay listing array tried
MaxSecondary == 1   \* longest Google Shopping / Facebook listing array tried
MaxPriceLen  == 4   \* longest free-form price string tried
MaxRepeats   == 11  \* most fulfilled queries pooled into one listing array

-----------------------------------------------------------------------------
(* Numbers *)

Abs(x) == IF x < 0 THEN -x ELSE x

RECURSIVE Gcd(_, _)
Gcd(a, b) == IF b = 0 THEN a ELSE Gcd(b, a % b)

NaN == <<0, 0>>
IsNaN(r) == r[2] = 0

Rat(n, d) ==
    IF d = 0 THEN NaN
    ELSE LET g == Gcd(Abs(n), Abs(d))
             s == IF d < 0 THEN -1 ELSE 1
         IN  <<(s * n) \div g, (s * d) \div g>>

Num(n) == <<n, 1>>
Zero == Num(0)

\* cross-reduced product, so that intermediate values stay small
RMul(a, b) ==
    IF IsNaN(a) \/ IsNaN(b) THEN NaN
    ELSE LET x == Rat(a[1], b[2])
             y == Rat(b[1], a[2])
         IN  Rat(x[1] * y[1], x[2] * y[2])

RAdd(a, b) ==
    IF IsNaN(a) \/ IsNaN(b) THEN NaN
    ELSE LET g == Gcd(a[2], b[2])
         IN  Rat(a[1] * (b[2] \div g) + b[1] * (a[2] \div g), (a[2] \div g) * b[2])

\* JavaScript x / y on finite numbers; 0 / 0 is NaN (x / 0 with x # 0 never arises)
RDiv(a, b) ==
    IF IsNaN(a) \/ IsNaN(b) \/ b[1] = 0 THEN NaN
    ELSE RMul(a, Rat(b[2], b[1]))

\* JavaScript a < b: false as soon as one side is NaN
RLt(a, b) ==
    /\ ~IsNaN(a)
    /\ ~IsNaN(b)
    /\ LET g == Gcd(a[2], b[2])
       IN  a[1] * (b[2] \div g) < b[1] * (a[2] \div g)

RLe(a, b) == ~IsNaN(a) /\ ~IsNaN(b) /\ ~RLt(b, a)

\* Math.max / Math.min on two finite numbers
RMax(a, b) == IF RLt(a, b) THEN b ELSE a
RMin(a, b) == IF RLt(b, a) THEN b ELSE a

Range(s) == {s[i] : i \in DOMAIN s}

SeqsUpTo(S, n) == UNION {[1..k -> S] : k \in 0..n}

RECURSIVE SumSeq(_)
SumSeq(s) == IF s = <<>> THEN 0 ELSE s[1] + SumSeq(Tail(s))

\* Array.prototype.sort((a, b) => a - b): ascending numeric order
RECURSIVE InsertAsc(_, _)
InsertAsc(x, s) ==
    IF s = <<>> THEN <<x>>
    ELSE IF x - s[1] < 0 THEN <<x>> \o s
    ELSE <<s[1]>> \o InsertAsc(x, Tail(s))

RECURSIVE SortAsc(_)
SortAsc(s) == IF s = <<>> THEN <<>> ELSE InsertAsc(s[1], SortAsc(Tail(s)))

-----------------------------------------------------------------------------
(* ApifyService.calculateSimilarity *)

Alphabet == {"a", "b", "A", " "}
Titles   == SeqsUpTo(Alphabet, MaxTitleLen)

UpperLetters ==
    <<"A", "B", "C", "D", "E", "F", "G", "H", "I", "J", "K", "L", "M",
      "N", "O", "P", "Q", "R", "S", "T", "U", "V", "W", "X", "Y", "Z">>
LowerLetters ==
    <<"a", "b", "c", "d", "e", "f", "g", "h", "i", "j", "k", "l", "m",
      "n", "o", "p", "q", "r", "s", "t", "u", "v", "w", "x", "y", "z">>

\* String.prototype.toLowerCase
LowerChar(c) ==
    IF \E i \in DOMAIN UpperLetters : UpperLetters[i] = c
    THEN LowerLetters[CHOOSE i \in DOMAIN UpperLetters : UpperLetters[i] = c]
    ELSE c
ToLowerCase(s) == [i \in DOMAIN s |-> LowerChar(s[i])]

IsWhitespace(c) == c = " "

\* String.prototype.split(/\s+/): the pieces between maximal whitespace runs;
\* a leading or trailing run leaves an empty piece, and "" splits to [""].
RECURSIVE SplitFrom(_, _, _, _)
SplitFrom(s, i, cur, inRun) ==
    IF i > Len(s) THEN <<cur>>
    ELSE IF IsWhitespace(s[i])
         THEN IF inRun THEN SplitFrom(s, i + 1, cur, TRUE)
              ELSE <<cur>> \o SplitFrom(s, i + 1, <<>>, TRUE)
         ELSE SplitFrom(s, i + 1, Append(cur, s[i]), FALSE)

SplitWhitespace(s) == SplitFrom(s, 1, <<>>, FALSE)

Words(t) == SplitWhitespace(ToLowerCase(t))

Includes(ws, w) == \E i \in DOMAIN ws : ws[i] = w

calculateSimilarity(t1, t2) ==
    LET words1 == Words(t1)
        words2 == Words(t2)
        intersection == SelectSeq(words1, LAMBDA w : Includes(words2, w))
        union == Range(words1) \cup Range(words2)
    IN  Rat(Len(intersection), Cardinality(union))

-----------------------------------------------------------------------------
(* DynamicPricingService: multiplier tables *)

S_new_in_package == <<"n", "e", "w", "-", "i", "n", "-", "p", "a", "c", "k", "a", "g", "e">>
S_new == <<"n", "e", "w">>
S_like_new == <<"l", "i", "k", "e", "-", "n", "e", "w">>
S_good == <<"g", "o", "o", "d">>
S_acceptable == <<"a", "c", "c", "e", "p", "t", "a", "b", "l", "e">>
S_poor == <<"p", "o", "o", "r">>
S_Good == <<"G", "o", "o", "d">>
S_Like_New == <<"L", "i", "k", "e", " ", "N", "e", "w">>
S_used == <<"u", "s", "e", "d">>
S_very_good == <<"v", "e", "r", "y", "-", "g", "o", "o", "d">>
S_for_parts == <<"f", "o", "r", "-", "p", "a", "r", "t", "s">>
S_electronics == <<"e", "l", "e", "c", "t", "r", "o", "n", "i", "c", "s">>
S_clothing == <<"c", "l", "o", "t", "h", "i", "n", "g">>
S_automotive == <<"a", "u", "t", "o", "m", "o", "t", "i", "v", "e">>
S_collectibles == <<"c", "o", "l", "l", "e", "c", "t", "i", "b", "l", "e", "s">>
S_books == <<"b", "o", "o", "k", "s">>
S_home == <<"h", "o", "m", "e">>
S_sports == <<"s", "p", "o", "r", "t", "s">>
S_default == <<"d", "e", "f", "a", "u", "l", "t">>
S_Electronics == <<"E", "l", "e", "c", "t", "r", "o", "n", "i", "c", "s">>
S_general == <<"g", "e", "n", "e", "r", "a", "l">>
S_apple == <<"a", "p", "p", "l", "e">>
S_samsung == <<"s", "a", "m", "s", "u", "n", "g">>
S_nike == <<"n", "i", "k", "e">>
S_adidas == <<"a", "d", "i", "d", "a", "s">>
S_louis_vuitton == <<"l", "o", "u", "i", "s", " ", "v", "u", "i", "t", "t", "o", "n">>
S_gucci == <<"g", "u", "c", "c", "i">>
S_rolex == <<"r", "o", "l", "e", "x">>
S_Apple == <<"A", "p", "p", "l", "e">>
S_unknown == <<"u", "n", "k", "n", "o", "w", "n">>

\* A table is a set of <<key, value>> pairs; the values are all non-zero, so
\* `table[key] || fallback` yields the fallback exactly when the key is missing.
HasKey(table, key) == \E e \in table : e[1] = key
Lookup(table, key) == (CHOOSE e \in table : e[1] = key)[2]
LookupOr(table, key, fallback) ==
    IF HasKey(table, key) THEN Lookup(table, key) ELSE fallback

conditionMultipliers ==
    { <<S_new_in_package, Rat(100, 100)>>,
      <<S_new,            Rat(85, 100)>>,
      <<S_like_new,       Rat(75, 100)>>,
      <<S_good,           Rat(65, 100)>>,
      <<S_acceptable,     Rat(45, 100)>>,
      <<S_poor,           Rat(25, 100)>> }

categoryMultipliers ==
    { <<S_electronics,  Rat(7, 10)>>,
      <<S_clothing,     Rat(4, 10)>>,
      <<S_automotive,   Rat(8, 10)>>,
      <<S_collectibles, Rat(9, 10)>>,
      <<S_books,        Rat(3, 10)>>,
      <<S_home,         Rat(6, 10)>>,
      <<S_sports,       Rat(5, 10)>>,
      <<S_default,      Rat(6, 10)>> }

brandMultipliers ==
    { <<S_apple,         Rat(8, 10)>>,
      <<S_samsung,       Rat(7, 10)>>,
      <<S_nike,          Rat(6, 10)>>,
      <<S_adidas,        Rat(6, 10)>>,
      <<S_louis_vuitton, Rat(85, 100)>>,
      <<S_gucci,         Rat(85, 100)>>,
      <<S_rolex,         Rat(9, 10)>>,
      <<S_default,       Rat(6, 10)>> }

-----------------------------------------------------------------------------
(* DynamicPricingService: price statistics *)

\* mutant: the filter keeps zero-priced listings (p >= 0)
PositivePrices_KeepZero(items) ==
    SelectSeq([i \in DOMAIN items |-> items[i].price], LAMBDA p : p >= 0)

\* items.map(item => item.price).filter(p => p > 0)
PositivePrices(items) ==
    SelectSeq([i \in DOMAIN items |-> items[i].price], LAMBDA p : p > 0)

\* listings.map(item => item.salePrice).filter(p => p > 0)
PositiveSalePrices(listings) ==
    SelectSeq([i \in DOMAIN listings |-> listings[i].salePrice], LAMBDA p : p > 0)

\* `if (primaryMarketData.ebay)`: an absent array contributes nothing
EbayPart(primaryMarketData) ==
    IF primaryMarketData.hasEbay THEN PositivePrices(primaryMarketData.ebay) ELSE <<>>

GooglePart(primaryMarketData) ==
    IF primaryMarketData.hasGoogleShopping
    THEN PositivePrices(primaryMarketData.googleShopping) ELSE <<>>

FacebookPart(enhancedMarketData) ==
    PositiveSalePrices(enhancedMarketData.facebook.listings)

\* mutant: an even count takes the upper middle value instead of the mean
calculateBasePrice_UpperMiddle(primaryMarketData, enhancedMarketData) ==
    LET allPrices == EbayPart(primaryMarketData) \o GooglePart(primaryMarketData)
                        \o FacebookPart(enhancedMarketData)
        sorted == SortAsc(allPrices)
        n      == Len(allPrices)
    IN  IF n = 0 THEN Zero ELSE Num(sorted[(n \div 2) + 1])

calculateBasePrice_NoEmptyGuard(primaryMarketData, enhancedMarketData) ==
    LET allPrices == EbayPart(primaryMarketData) \o GooglePart(primaryMarketData)
                        \o FacebookPart(enhancedMarketData)
        sorted == SortAsc(allPrices)
        n      == Len(allPrices)
    IN  IF n = 0 THEN NaN
        ELSE IF n % 2 = 0
             THEN Rat(sorted[n \div 2] + sorted[(n \div 2) + 1], 2)
             ELSE Num(sorted[(n \div 2) + 1])

calculateBasePrice(primaryMarketData, enhancedMarketData) ==
    LET allPrices == EbayPart(primaryMarketData) \o GooglePart(primaryMarketData)
                        \o FacebookPart(enhancedMarketData)
        sorted == SortAsc(allPrices)
        n      == Len(allPrices)
    IN  IF n = 0 THEN Zero
        ELSE IF n % 2 = 0
             THEN Rat(sorted[n \div 2] + sorted[(n \div 2) + 1], 2)
             ELSE Num(sorted[(n \div 2) + 1])

PriceBands ==
    <<"Under $25", "$25-$50", "$50-$100", "$100-$250", "$250-$500", "Over $500">>

BandOf_ExclusiveLower(price) ==
    IF price <= 25 THEN "Under $25"
    ELSE IF price <= 50 THEN "$25-$50"
    ELSE IF price <= 100 THEN "$50-$100"
    ELSE IF price <= 250 THEN "$100-$250"
    ELSE IF price <= 500 THEN "$250-$500"
    ELSE "Over $500"

BandOf(price) ==
    IF price < 25 THEN "Under $25"
    ELSE IF price < 50 THEN "$25-$50"
    ELSE IF price < 100 THEN "$50-$100"
    ELSE IF price < 250 THEN "$100-$250"
    ELSE IF price < 500 THEN "$250-$500"
    ELSE "Over $500"

EmptyDistribution == [b \in {} |-> 0]

analyzeComparables(primaryMarketData, enhancedMarketData) ==
    LET allPrices == EbayPart(primaryMarketData) \o GooglePart(primaryMarketData)
        sorted == SortAsc(allPrices)
        n      == Len(allPrices)
    IN  IF n = 0
        THEN [medianPrice |-> Zero, averagePrice |-> Zero, totalComparables |-> 0,
              priceDistribution |-> EmptyDistribution]
        ELSE [medianPrice |->
                  IF n % 2 = 0
                  THEN Rat(sorted[n \div 2] + sorted[(n \div 2) + 1], 2)
                  ELSE Num(sorted[(n \div 2) + 1]),
              averagePrice |-> Rat(SumSeq(sorted), n),
              totalComparables |-> n,
              priceDistribution |->
                  [b \in Range(PriceBands) |->
                      Cardinality({i \in DOMAIN sorted : BandOf(sorted[i]) = b})]]

-----------------------------------------------------------------------------
(* DynamicPricingService: adjustment chain *)

IsGradeChar(c) == c = "-" \/ \E i \in DOMAIN LowerLetters : LowerLetters[i] = c

\* conditionGrade.toLowerCase().replace(/[^a-z-]/g, '')
NormalizeGrade(conditionGrade) ==
    SelectSeq(ToLowerCase(conditionGrade), IsGradeChar)

getConditionMultiplier(conditionGrade) ==
    LookupOr(conditionMultipliers, NormalizeGrade(conditionGrade), Rat(6, 10))

\* A score is [present, value]; `condition.score ? ... : 0` takes the first
\* branch for a present, non-zero, non-NaN number.
Truthy(score) == score.present /\ ~IsNaN(score.value) /\ score.value # Zero

scoreAdjustment(condition) ==
    IF Truthy(condition.score)
    THEN RMul(RAdd(condition.score.value, Rat(-5, 10)), Rat(2, 10))
    ELSE Zero

\* mutant: the combined multiplier is not clamped
finalMultiplier_Unclamped(condition) ==
    RAdd(getConditionMultiplier(condition.grade), scoreAdjustment(condition))

finalMultiplier(condition) ==
    RMax(Rat(1, 10),
         RMin(Num(1), RAdd(getConditionMultiplier(condition.grade),
                           scoreAdjustment(condition))))

applyConditionAdjustment(basePrice, condition) ==
    RMul(basePrice, finalMultiplier(condition))

applyCategoryAdjustment_SwappedWeights(price, category, brand) ==
    LET categoryMultiplier ==
            LookupOr(categoryMultipliers, ToLowerCase(category),
                     Lookup(categoryMultipliers, S_default))
        brandMultiplier ==
            LookupOr(brandMultipliers, ToLowerCase(brand),
                     Lookup(brandMultipliers, S_default))
        combinedMultiplier ==
            RAdd(RMul(categoryMultiplier, Rat(3, 10)), RMul(brandMultiplier, Rat(7, 10)))
    IN  RMul(price, combinedMultiplier)

applyCategoryAdjustment(price, category, brand) ==
    LET categoryMultiplier ==
            LookupOr(categoryMultipliers, ToLowerCase(category),
                     Lookup(categoryMultipliers, S_default))
        brandMultiplier ==
            LookupOr(brandMultipliers, ToLowerCase(brand),
                     Lookup(brandMultipliers, S_default))
        combinedMultiplier ==
            RAdd(RMul(categoryMultiplier, Rat(7, 10)), RMul(brandMultiplier, Rat(3, 10)))
    IN  RMul(price, combinedMultiplier)

applyCompetitivePositioning_NoDefault(price, position) ==
    CASE position = "aggressive"  -> RMul(price, Rat(9, 10))
      [] position = "premium"     -> RMul(price, Rat(115, 100))
      [] position = "competitive" -> RMul(price, Rat(95, 100))
      [] OTHER                    -> price

applyCompetitivePositioning_FlatDiscount(price, position) ==
    CASE position = "aggressive" -> RAdd(price, Num(-5))
      [] position = "premium"    -> RAdd(price, Num(5))
      [] OTHER                   -> RMul(price, Rat(95, 100))

\* mutant: premium positioning adds 20%
applyCompetitivePositioning_SteepPremium(price, position) ==
    CASE position = "aggressive" -> RMul(price, Rat(9, 10))
      [] position = "premium"    -> RMul(price, Rat(120, 100))
      [] OTHER                   -> RMul(price, Rat(95, 100))

applyCompetitivePositioning(price, position) ==
    CASE position = "aggressive" -> RMul(price, Rat(9, 10))
      [] position = "premium"    -> RMul(price, Rat(115, 100))
      [] OTHER                   -> RMul(price, Rat(95, 100))

selectOptimalPrice_TrendFirst(competitivePrice, velocityPrice, marginPrice, strategy, marketTrends) ==
    IF marketTrends.direction = "up" /\ RLt(Rat(7, 10), marketTrends.confidence)
    THEN marginPrice
    ELSE IF marketTrends.direction = "down" /\ RLt(Rat(7, 10), marketTrends.confidence)
         THEN velocityPrice
         ELSE CASE strategy = "velocity" -> velocityPrice
                [] strategy = "margin"   -> marginPrice
                [] OTHER                 -> competitivePrice

selectOptimalPrice_AtLeast(competitivePrice, velocityPrice, marginPrice, strategy, marketTrends) ==
    CASE strategy = "velocity" -> velocityPrice
      [] strategy = "margin"   -> marginPrice
      [] OTHER ->
            IF marketTrends.direction = "up" /\ RLe(Rat(7, 10), marketTrends.confidence)
            THEN marginPrice
            ELSE IF marketTrends.direction = "down"
                    /\ RLe(Rat(7, 10), marketTrends.confidence)
                 THEN velocityPrice
                 ELSE competitivePrice

selectOptimalPrice(competitivePrice, velocityPrice, marginPrice, strategy, marketTrends) ==
    CASE strategy = "velocity" -> velocityPrice
      [] strategy = "margin"   -> marginPrice
      [] OTHER ->
            IF marketTrends.direction = "up" /\ RLt(Rat(7, 10), marketTrends.confidence)
            THEN marginPrice
            ELSE IF marketTrends.direction = "down"
                    /\ RLt(Rat(7, 10), marketTrends.confidence)
                 THEN velocityPrice
                 ELSE competitivePrice

determineCompetitivePosition_Inclusive(recommendedPrice, basePrice) ==
    LET ratio == RDiv(recommendedPrice, basePrice)
    IN  IF RLe(ratio, Rat(85, 100)) THEN "Aggressive - Priced for quick sale"
        ELSE IF RLe(ratio, Rat(95, 100)) THEN "Competitive - Priced to move"
        ELSE IF RLe(ratio, Rat(105, 100)) THEN "Market Rate - Fair market pricing"
        ELSE IF RLe(ratio, Rat(115, 100)) THEN "Premium - Higher margin positioning"
        ELSE "Luxury - Premium market positioning"

determineCompetitivePosition(recommendedPrice, basePrice) ==
    LET ratio == RDiv(recommendedPrice, basePrice)
    IN  IF RLt(ratio, Rat(85, 100)) THEN "Aggressive - Priced for quick sale"
        ELSE IF RLt(ratio, Rat(95, 100)) THEN "Competitive - Priced to move"
        ELSE IF RLt(ratio, Rat(105, 100)) THEN "Market Rate - Fair market pricing"
        ELSE IF RLt(ratio, Rat(115, 100)) THEN "Premium - Higher margin positioning"
        ELSE "Luxury - Premium market positioning"


-----------------------------------------------------------------------------
(* FacebookMarketplaceService.findSimilarListings: what reaches the caller *)

SimilarLimit == 20

Take(s, n) == SubSeq(s, 1, IF Len(s) < n THEN Len(s) ELSE n)

\* uniqueListings.filter(listing => listing.salePrice > 0). ... .slice(0, 20);
\* the relevance ordering in between only permutes the listings.
findSimilarListings(uniqueListings) ==
    Take(SelectSeq(uniqueListings, LAMBDA l : l.salePrice > 0), SimilarLimit)

-----------------------------------------------------------------------------
(* EnhancedAIService.processComparableListings: collect, rank, keep *)

StoreLimit     == 20
TopComparables == 10

\* one pushed comparable; of the copied fields only the title is kept
Comparable(platform, productTitle, item) ==
    [platform |-> platform, title |-> item.title,
     similarity |-> calculateSimilarity(productTitle, item.title)]

\* the two for-of loops: eBay listings first, then Google Shopping listings
collectComparables(productTitle, md) ==
    [i \in DOMAIN md.ebay |-> Comparable("ebay", productTitle, md.ebay[i])]
        \o [i \in DOMAIN md.googleShopping |->
                Comparable("google_shopping", productTitle, md.googleShopping[i])]

\* a comparator of (a, b) => a.similarity - b.similarity, highest last
RECURSIVE InsertBySimilarity_Ascending(_, _)
InsertBySimilarity_Ascending(x, s) ==
    IF s = <<>> THEN <<x>>
    ELSE IF ~RLt(s[1].similarity, x.similarity) THEN <<x>> \o s
    ELSE <<s[1]>> \o InsertBySimilarity_Ascending(x, Tail(s))

RECURSIVE sortBySimilarity_Ascending(_)
sortBySimilarity_Ascending(comparables) == IF comparables = <<>> THEN <<>> ELSE InsertBySimilarity_Ascending(comparables[1], sortBySimilarity_Ascending(Tail(comparables)))

\* comparables.sort((a, b) => b.similarity - a.similarity): the sort is stable,
\* so x, which stood before every element of s, stays before its equals
RECURSIVE InsertBySimilarity(_, _)
InsertBySimilarity(x, s) ==
    IF s = <<>> THEN <<x>>
    ELSE IF ~RLt(x.similarity, s[1].similarity) THEN <<x>> \o s
    ELSE <<s[1]>> \o InsertBySimilarity(x, Tail(s))

RECURSIVE sortBySimilarity(_)
sortBySimilarity(comparables) == IF comparables = <<>> THEN <<>> ELSE InsertBySimilarity(comparables[1], sortBySimilarity(Tail(comparables)))

-----------------------------------------------------------------------------
(* ApifyService.getMarketData: summary statistics *)

MinOf(s) == CHOOSE x \in Range(s) : \A y \in Range(s) : x <= y
MaxOf(s) == CHOOSE x \in Range(s) : \A y \in Range(s) : y <= x

EmptySummary(platforms) ==
    [totalListings |-> 0, averagePrice |-> Zero,
     priceRange |-> [min |-> 0, max |-> 0], platforms |-> platforms]

summarize(results) ==
    LET allPrices == PositivePrices(results.ebay) \o PositivePrices(results.googleShopping)
    IN  IF Len(allPrices) > 0
        THEN [results EXCEPT
                !.summary.totalListings = Len(allPrices),
                !.summary.averagePrice  = Rat(SumSeq(allPrices), Len(allPrices)),
                !.summary.priceRange    = [min |-> MinOf(allPrices), max |-> MaxOf(allPrices)]]
        ELSE results

-----------------------------------------------------------------------------
(* ApifyService.parsePrice and the listing normalizers *)

\* a raw price field: a string (its characters), a number, or nothing
RawString(chars) == [kind |-> "string", chars |-> chars]
RawNumber(value) == [kind |-> "number", value |-> value]
Absent           == [kind |-> "absent"]

Digits == {"0", "1", "2", "3", "4", "5", "6", "7", "8", "9"}

DigitValue(c) ==
    CASE c = "0" -> 0 [] c = "1" -> 1 [] c = "2" -> 2 [] c = "3" -> 3 [] c = "4" -> 4
      [] c = "5" -> 5 [] c = "6" -> 6 [] c = "7" -> 7 [] c = "8" -> 8 [] c = "9" -> 9

RECURSIVE Pow10(_)
Pow10(k) == IF k = 0 THEN 1 ELSE 10 * Pow10(k - 1)

\* the natural number a run of digits writes (0 for the empty run)
RECURSIVE DigitsValue(_)
DigitsValue(ds) ==
    IF ds = <<>> THEN 0
    ELSE 10 * DigitsValue(SubSeq(ds, 1, Len(ds) - 1)) + DigitValue(ds[Len(ds)])

\* the longest run of digits that starts at position i
RECURSIVE DigitRun(_, _)
DigitRun(chars, i) ==
    IF i <= Len(chars) /\ chars[i] \in Digits
    THEN <<chars[i]>> \o DigitRun(chars, i + 1)
    ELSE <<>>

\* String.prototype.replace(pattern, '') with a string pattern: only the
\* first occurrence goes
RECURSIVE ReplaceFirst(_, _)
ReplaceFirst(chars, c) ==
    IF chars = <<>> THEN <<>>
    ELSE IF chars[1] = c THEN Tail(chars)
    ELSE <<chars[1]>> \o ReplaceFirst(Tail(chars), c)

\* parseFloat on a string of digits, '.' and ',': the longest numeric prefix
\* (digits, then optionally '.' and digits), NaN when that prefix has no digit
parseFloat(chars) ==
    LET whole    == DigitRun(chars, 1)
        hasPoint == Len(whole) < Len(chars) /\ chars[Len(whole) + 1] = "."
        fraction == IF hasPoint THEN DigitRun(chars, Len(whole) + 2) ELSE <<>>
    IN  IF whole = <<>> /\ fraction = <<>> THEN NaN
        ELSE Rat(DigitsValue(whole) * Pow10(Len(fraction)) + DigitsValue(fraction),
                 Pow10(Len(fraction)))

parsePrice(priceStr) ==
    IF priceStr.kind = "number" THEN priceStr.value
    ELSE IF priceStr.kind = "absent" \/ priceStr.chars = <<>> THEN Zero
    ELSE LET cleaned == SelectSeq(priceStr.chars, LAMBDA c : c \in Digits \cup {".", ","})
             parsed  == parseFloat(ReplaceFirst(cleaned, ","))
         IN  IF IsNaN(parsed) THEN Zero ELSE parsed

\* JavaScript truthiness of a raw field
TruthyRaw(raw) ==
    CASE raw.kind = "string" -> raw.chars # <<>>
      [] raw.kind = "number" -> ~IsNaN(raw.value) /\ raw.value # Zero
      [] OTHER               -> FALSE

\* price: this.parsePrice(item.price)   (scrapeEbay, scrapeGoogleShopping)
scrapedPrice(item) == RawNumber(parsePrice(item.price))

\* salePrice: item.price || item.salePrice || 0   (searchListings)
salePriceOf(item) ==
    IF TruthyRaw(item.price) THEN item.price
    ELSE IF TruthyRaw(item.salePrice) THEN item.salePrice
    ELSE RawNumber(Zero)

-----------------------------------------------------------------------------
(* FacebookMarketplaceService.getMarketAnalysis: price statistics *)

\* Math.min() and Math.max() of no arguments; they are only ever stored, no
\* arithmetic is done on them
Infinity      == <<1, 0>>
MinusInfinity == <<-1, 0>>

\* Math.round(x * 100) / 100 for x >= 0
Round2(x) ==
    IF IsNaN(x) THEN NaN
    ELSE Rat((200 * x[1] + x[2]) \div (2 * x[2]), 100)

\* the numeric fields of the result, from what searchListings returned
getMarketAnalysis(listings) ==
    IF Len(listings) = 0
    THEN [averagePrice |-> Zero, priceRange |-> [min |-> Zero, max |-> Zero],
          totalListings |-> 0]
    ELSE LET validListings == SelectSeq(listings, LAMBDA l : l.salePrice > 0)
             prices == [i \in DOMAIN validListings |-> validListings[i].salePrice]
             averagePrice == Rat(SumSeq(prices), Len(prices))
             minPrice == IF prices = <<>> THEN Infinity ELSE Num(MinOf(prices))
             maxPrice == IF prices = <<>> THEN MinusInfinity ELSE Num(MaxOf(prices))
         IN  [averagePrice |-> Round2(averagePrice),
              priceRange |-> [min |-> minPrice, max |-> maxPrice],
              totalListings |-> Len(validListings)]

-----------------------------------------------------------------------------
(* Input domains *)

Undefined == "<undefined>"

\* `x || fallback` on a string option
OrElse(x, fallback) == IF x = Undefined \/ x = "" THEN fallback ELSE x

Prices         == {-5, 0, 40, 100, 250}
GooglePrices   == {-5, 40, 250}
FacebookPrices == {0, 100, 250}

Listings(n)       == SeqsUpTo([price : Prices], n)
GoogleListings(n) == SeqsUpTo([price : GooglePrices], n)
SaleListings(n)   == SeqsUpTo([salePrice : FacebookPrices], n)

NoScore      == [present |-> FALSE, value |-> Zero]
ScoreOf(n, d) == [present |-> TRUE, value |-> Rat(n, d)]

\* the table's grades, the product form's grades (very-good and for-parts are
\* not in the table), the route's default 'used', and differently written ones
Grades == {S_new_in_package, S_new, S_like_new, S_good, S_acceptable, S_poor,
           S_very_good, S_for_parts, S_used, S_Good, S_Like_New}
Scores == {NoScore} \cup {ScoreOf(n, 10) : n \in {-10, 0, 2, 5, 7, 10, 20}}

Categories == {S_electronics, S_Electronics, S_clothing, S_automotive, S_collectibles,
               S_books, S_home, S_sports, S_default, S_general}
Brands     == {S_apple, S_Apple, S_samsung, S_nike, S_adidas, S_louis_vuitton,
               S_gucci, S_rolex, S_unknown}

Strategies == {"velocity", "margin", "balanced", "turbo", Undefined}
Positions  == {"aggressive", "competitive", "premium", "luxury", Undefined}

Outcomes == {"ok", "throws"}

\* geminiService.analyzeMarketTrends: the model answers with JSON, the model call
\* or the parse fails inside the method's own try, or the method itself rejects
TrendOutcomes == {"ok", "modelFails", "throws"}

\* a collaborator whose promise never settles
Unresponsive == "never settles"

TrendDirections  == {"up", "down", "stable", Undefined}
TrendConfidences == {NoScore} \cup {ScoreOf(n, 10) : n \in {0, 5, 7, 9}}
Trends ==
    [direction : TrendDirections, confidence : TrendConfidences,
     factors : {<<>>, <<"seasonal demand">>}]

\* The request the pricing route builds for a stored product
DefaultProduct ==
    [category |-> S_electronics, brand |-> S_unknown,
     condition |-> [grade |-> S_good, score |-> ScoreOf(7, 10)]]
DefaultOptions == [strategy |-> "balanced", competitivePosition |-> "competitive"]
DefaultTrend ==
    [direction |-> "stable", confidence |-> ScoreOf(5, 10), factors |-> <<>>]
\* GeminiService.analyzeMarketTrends, catch block
geminiTrendFallback ==
    [direction |-> "stable", confidence |-> ScoreOf(5, 10),
     factors |-> <<"Insufficient data for trend analysis">>]

\* DynamicPricingService.analyzeMarketTrends, catch block
trendFallback_Rising ==
    [direction |-> "up", confidence |-> Rat(9, 10),
     factors |-> <<"Insufficient data for trend analysis">>]

trendFallback ==
    [direction |-> "stable", confidence |-> Rat(5, 10),
     factors |-> <<"Insufficient data for trend analysis">>]

EmptyMarket ==
    [hasEbay |-> TRUE, ebay |-> <<>>, hasGoogleShopping |-> TRUE, googleShopping |-> <<>>]
DefaultMarket ==
    [hasEbay |-> TRUE, ebay |-> <<[price |-> 100], [price |-> 40]>>,
     hasGoogleShopping |-> TRUE, googleShopping |-> <<[price |-> 250]>>]
DefaultEnv ==
    [queries |-> "ok", fbAnalysis |-> "ok", fbSimilar |-> "ok", fbRaw |-> <<>>,
     trends |-> "ok", trend |-> DefaultTrend,
     ebayScrape |-> "ok", ebayItems |-> <<>>,
     googleScrape |-> "ok", googleItems |-> <<>>]

EmptyFacebook_Placeholder == [facebook |-> [listings |-> <<[salePrice |-> 250]>>]]
EmptyFacebook == [facebook |-> [listings |-> <<>>]]
NoLocals   == [computed |-> FALSE]
NoAnalysis == [status |-> "pending"]
NoResults  == [ebay |-> <<>>, googleShopping |-> <<>>, summary |-> EmptySummary(<<>>)]

IdleSimilarity == title1 = <<>> /\ title2 = <<>> /\ simResult = NaN
IdlePricing ==
    /\ productData = DefaultProduct /\ marketData = DefaultMarket
    /\ options = DefaultOptions
    /\ enhanced = EmptyFacebook /\ locals = NoLocals /\ analysis = NoAnalysis
IdleMarketData ==
    /\ mdOptions = [includeEbay |-> TRUE, includeGoogleShopping |-> TRUE]
    /\ mdResults = NoResults /\ mdPending = {}
IdleLabel == labelArgs = [recommendedPrice |-> Zero, basePrice |-> Zero] /\ label = ""
NoSecond  == [pc |-> "none", enhanced |-> EmptyFacebook, locals |-> NoLocals,
              analysis |-> NoAnalysis]
IdleCall  == callArgs = <<>> /\ callResult = <<>>
IdleAux   == second = NoSecond /\ IdleCall

-----------------------------------------------------------------------------
(* Initial states: one call of one entry point, with its arguments and the   *)
(* answers its collaborators will give                                       *)

InitSimilarity ==
    /\ op = "calculateSimilarity" /\ pc = "call"
    /\ title1 \in Titles /\ title2 \in Titles /\ simResult = NaN
    /\ env = DefaultEnv
    /\ IdlePricing /\ IdleMarketData /\ IdleLabel /\ IdleAux

InitMarketData ==
    /\ op = "getMarketData" /\ pc = "call"
    /\ mdOptions \in [includeEbay : BOOLEAN, includeGoogleShopping : BOOLEAN]
    /\ mdResults = NoResults /\ mdPending = {}
    /\ \E eo \in Outcomes, go \in Outcomes :
       \E ei \in (IF eo = "ok" THEN Listings(MaxListings) ELSE {<<>>}),
          gi \in (IF go = "ok" THEN GoogleListings(MaxSecondary) ELSE {<<>>}) :
            env = [DefaultEnv EXCEPT !.ebayScrape = eo, !.ebayItems = ei,
                                     !.googleScrape = go, !.googleItems = gi]
    /\ IdleSimilarity /\ IdlePricing /\ IdleLabel /\ IdleAux

PricingCall ==
    /\ op = "analyzePricing" /\ pc = "generateSearchQueries"
    /\ enhanced = EmptyFacebook /\ locals = NoLocals /\ analysis = NoAnalysis
    /\ IdleSimilarity /\ IdleMarketData /\ IdleLabel /\ IdleAux

\* every mix of eBay, Google Shopping and Facebook listings, default product
InitListings ==
    /\ PricingCall
    /\ productData = DefaultProduct /\ options = DefaultOptions
    /\ \E e \in Listings(MaxListings), g \in GoogleListings(MaxSecondary) :
          marketData = [hasEbay |-> TRUE, ebay |-> e,
                        hasGoogleShopping |-> TRUE, googleShopping |-> g]
    /\ \E f \in SaleListings(MaxSecondary) : env = [DefaultEnv EXCEPT !.fbRaw = f]

\* absent arrays and failing collaborators
InitFailures ==
    /\ PricingCall
    /\ productData = DefaultProduct /\ options = DefaultOptions
    /\ \E he \in BOOLEAN, hg \in BOOLEAN :
       \E e \in (IF he THEN {<<>>, <<[price |-> 100]>>} ELSE {<<>>}),
          g \in (IF hg THEN {<<>>, <<[price |-> 40]>>} ELSE {<<>>}) :
            marketData = [hasEbay |-> he, ebay |-> e,
                          hasGoogleShopping |-> hg, googleShopping |-> g]
    /\ \E q \in Outcomes, a \in Outcomes, f \in Outcomes, t \in TrendOutcomes :
          env = [DefaultEnv EXCEPT !.queries = q, !.fbAnalysis = a, !.fbSimilar = f,
                                   !.fbRaw = <<[salePrice |-> 250]>>, !.trends = t]

\* every grade and score
InitCondition ==
    /\ PricingCall
    /\ \E g \in Grades, sc \in Scores :
          productData = [DefaultProduct EXCEPT !.condition = [grade |-> g, score |-> sc]]
    /\ options = DefaultOptions
    /\ \E e \in {<<>>, <<[price |-> 100]>>, <<[price |-> 40], [price |-> 100]>>} :
          marketData = [hasEbay |-> TRUE, ebay |-> e,
                        hasGoogleShopping |-> TRUE, googleShopping |-> <<>>]
    /\ env = DefaultEnv

\* every category, brand and positioning
InitCategory ==
    /\ PricingCall
    /\ \E c \in Categories, b \in Brands :
          productData = [DefaultProduct EXCEPT !.category = c, !.brand = b]
    /\ \E p \in Positions : options = [DefaultOptions EXCEPT !.competitivePosition = p]
    /\ marketData \in {DefaultMarket, EmptyMarket}
    /\ env = DefaultEnv

\* every strategy and trend signal
InitStrategy ==
    /\ PricingCall
    /\ productData = DefaultProduct
    /\ \E st \in Strategies, p \in {"aggressive", "premium", "luxury"} :
          options = [strategy |-> st, competitivePosition |-> p]
    /\ marketData \in {DefaultMarket, EmptyMarket}
    /\ \E t \in Trends : env = [DefaultEnv EXCEPT !.trend = t]

\* every strategy while the trend call fails
InitTrendFailure ==
    /\ PricingCall
    /\ productData = DefaultProduct
    /\ \E st \in Strategies : options = [DefaultOptions EXCEPT !.strategy = st]
    /\ marketData = DefaultMarket
    /\ \E t \in TrendOutcomes \ {"ok"} : env = [DefaultEnv EXCEPT !.trends = t]

\* three listings at 100, 120 and 80 for a good-grade electronics item of an
\* unknown brand without a condition score
InitScenario ==
    /\ PricingCall
    /\ productData = [DefaultProduct EXCEPT !.condition.score = NoScore]
    /\ \E st \in Strategies : options = [DefaultOptions EXCEPT !.strategy = st]
    /\ marketData = [EmptyMarket EXCEPT
                        !.ebay = <<[price |-> 100], [price |-> 120], [price |-> 80]>>]
    /\ env = DefaultEnv

\* one collaborator never answers
InitUnresponsive ==
    /\ PricingCall
    /\ productData = DefaultProduct /\ options = DefaultOptions
    /\ marketData = DefaultMarket
    /\ env \in {[DefaultEnv EXCEPT !.queries = Unresponsive],
                [DefaultEnv EXCEPT !.fbAnalysis = Unresponsive],
                [DefaultEnv EXCEPT !.fbSimilar = Unresponsive],
                [DefaultEnv EXCEPT !.trends = Unresponsive]}

\* two calls with the same arguments in progress at once
InitTwoCalls ==
    /\ op = "analyzePricing" /\ pc = "generateSearchQueries"
    /\ enhanced = EmptyFacebook /\ locals = NoLocals /\ analysis = NoAnalysis
    /\ second = [NoSecond EXCEPT !.pc = "generateSearchQueries"]
    /\ IdleSimilarity /\ IdleMarketData /\ IdleLabel /\ IdleCall
    /\ productData = DefaultProduct /\ marketData = DefaultMarket
    /\ \E st \in {"balanced", "margin"} : options = [DefaultOptions EXCEPT !.strategy = st]
    /\ \E q \in Outcomes, a \in Outcomes, f \in Outcomes, t \in TrendOutcomes :
          env = [DefaultEnv EXCEPT !.queries = q, !.fbAnalysis = a, !.fbSimilar = f,
                                   !.fbRaw = <<[salePrice |-> 250]>>, !.trends = t]

\* eBay prices on and next to the edges of the distribution bands
BandPrices == {24, 25, 49, 50, 99, 100, 249, 250, 499, 500}

InitBands ==
    /\ PricingCall
    /\ productData = DefaultProduct /\ options = DefaultOptions
    /\ \E e \in SeqsUpTo([price : BandPrices], MaxListings) :
          marketData = [EmptyMarket EXCEPT !.ebay = e]
    /\ env = DefaultEnv

\* the ends of every table at once: best and worst grade, score, category and
\* brand under each positioning and strategy, with a confident rising trend
InitExtremes ==
    /\ PricingCall
    /\ \E g \in {S_new_in_package, S_poor}, sc \in {ScoreOf(20, 10), NoScore},
          c \in {S_collectibles, S_books}, b \in {S_rolex, S_unknown} :
          productData = [category |-> c, brand |-> b,
                         condition |-> [grade |-> g, score |-> sc]]
    /\ \E st \in {"velocity", "margin", "balanced"}, p \in {"aggressive", "premium"} :
          options = [strategy |-> st, competitivePosition |-> p]
    /\ marketData \in {DefaultMarket, EmptyMarket}
    /\ env = [DefaultEnv EXCEPT
                 !.trend = [direction |-> "up", confidence |-> ScoreOf(9, 10),
                            factors |-> <<>>]]

InitPricing ==
    \/ InitListings \/ InitFailures \/ InitCondition \/ InitCategory \/ InitStrategy
    \/ InitTrendFailure \/ InitScenario \/ InitUnresponsive \/ InitTwoCalls
    \/ InitBands \/ InitExtremes

\* determineCompetitivePosition on its own: ratios on, next to and far from
\* each threshold, including a base price that is not positive
LabelBases  == {-100, 0, 20, 100}
LabelPrices == {0, 17, 19, 21, 23, 84, 85, 94, 95, 96, 104, 105, 114, 115, 116, 250}

InitLabel ==
    /\ op = "determineCompetitivePosition" /\ pc = "call"
    /\ \E r \in LabelPrices, b \in LabelBases :
          labelArgs = [recommendedPrice |-> Num(r), basePrice |-> Num(b)]
    /\ label = ""
    /\ env = DefaultEnv
    /\ IdleSimilarity /\ IdlePricing /\ IdleMarketData /\ IdleAux

\* price fields as the scrapers deliver them
PriceAlphabet == {"$", "1", "5", ",", "."}
PriceStrings  == SeqsUpTo(PriceAlphabet, MaxPriceLen)

P_1_234_56 == <<"$", "1", ",", "2", "3", "4", ".", "5", "6">>
P_1_234_567_89 == <<"$", "1", ",", "2", "3", "4", ",", "5", "6", "7", ".", "8", "9">>
P_12_50 == <<"$", "1", "2", ".", "5", "0">>
P_minus_5 == <<"-", "5">>
P_N_A == <<"N", "/", "A">>
P_1_2_3 == <<"1", ".", "2", ".", "3">>
WrittenPrices == {P_1_234_56, P_1_234_567_89, P_12_50, P_minus_5, P_N_A, P_1_2_3}

RawNumbers == {RawNumber(Num(-5)), RawNumber(Zero), RawNumber(Num(40)), RawNumber(Rat(5, 2))}
RawPrices  ==
    {Absent} \cup RawNumbers \cup {RawString(c) : c \in PriceStrings \cup WrittenPrices}
FewRawPrices ==
    {Absent} \cup RawNumbers
        \cup {RawString(c) : c \in SeqsUpTo(PriceAlphabet, 1) \cup WrittenPrices}

\* parsePrice on its own
InitParsePrice ==
    /\ op = "parsePrice" /\ pc = "call"
    /\ \E raw \in RawPrices : callArgs = [priceStr |-> raw]
    /\ callResult = <<>> /\ second = NoSecond
    /\ env = DefaultEnv
    /\ IdleSimilarity /\ IdlePricing /\ IdleMarketData /\ IdleLabel

\* one dataset item on its way through a scraper's items.map
InitNormalize ==
    /\ op \in {"scrapeEbay", "scrapeGoogleShopping", "searchListings"} /\ pc = "map"
    /\ \E price \in FewRawPrices :
       \E salePrice \in (IF op = "searchListings"
                          THEN {Absent, RawNumber(Num(40)), RawNumber(Num(-5)),
                                RawString(P_12_50)}
                          ELSE {Absent}) :
          callArgs = [item |-> [price |-> price, salePrice |-> salePrice]]
    /\ callResult = <<>> /\ second = NoSecond
    /\ env = DefaultEnv
    /\ IdleSimilarity /\ IdlePricing /\ IdleMarketData /\ IdleLabel

\* getMarketAnalysis once searchListings has answered
InitMarketAnalysis ==
    /\ op = "getMarketAnalysis" /\ pc = "searchListings"
    /\ \E l \in SeqsUpTo([salePrice : Prices], MaxListings) : callArgs = [listings |-> l]
    /\ callResult = <<>> /\ second = NoSecond
    /\ env = DefaultEnv
    /\ IdleSimilarity /\ IdlePricing /\ IdleMarketData /\ IdleLabel

\* the pooled listings of the search queries: the arrays of one fulfilled
\* getMarketData, pushed once or as often as it takes for the pool to outgrow
\* both the top-10 and the store-20 slices
RECURSIVE Repeat(_, _)
Repeat(s, n) == IF n = 0 THEN <<>> ELSE s \o Repeat(s, n - 1)

ProductTitles    == {<<"a", " ", "b">>, <<"a">>}
ComparableTitles == {<<"a", " ", "b">>, <<"a">>, <<"b">>}
TitledListings(n) == SeqsUpTo([title : ComparableTitles], n)

\* analyzeProduct once the market data of the queries has been combined
InitComparables ==
    /\ op = "analyzeProduct" /\ pc = "processComparableListings"
    /\ \E productTitle \in ProductTitles :
       \E ebay \in TitledListings(MaxListings) :
       \E googleShopping \in TitledListings(MaxSecondary) :
       \E queries \in {1, MaxRepeats} :
          callArgs = [productTitle |-> productTitle,
                      marketData |-> [ebay |-> Repeat(ebay, queries),
                                      googleShopping |-> Repeat(googleShopping, queries)]]
    /\ callResult = <<>> /\ second = NoSecond
    /\ env = DefaultEnv
    /\ IdleSimilarity /\ IdlePricing /\ IdleMarketData /\ IdleLabel

Init ==
    \/ InitSimilarity \/ InitMarketData \/ InitPricing \/ InitLabel
    \/ InitParsePrice \/ InitNormalize \/ InitMarketAnalysis
    \/ InitComparables

-----------------------------------------------------------------------------
(* DynamicPricingService.determineCompetitivePosition, called once *)

DetermineCompetitivePosition ==
    /\ op = "determineCompetitivePosition" /\ pc = "call"
    /\ label' = determineCompetitivePosition(labelArgs.recommendedPrice,
                                              labelArgs.basePrice)
    /\ pc' = "done"
    /\ UNCHANGED <<op, title1, title2, simResult, productData, marketData, options,
                   env, enhanced, locals, analysis, mdOptions, mdResults, mdPending,
                   labelArgs>>
    /\ UNCHANGED auxVars

-----------------------------------------------------------------------------
(* ApifyService.parsePrice and the scrapers' items.map, one item *)

OtherVars ==
    <<op, title1, title2, simResult, productData, marketData, options, env, enhanced,
      locals, analysis, mdOptions, mdResults, mdPending, labelArgs, label, second>>

ParsePrice ==
    /\ op = "parsePrice" /\ pc = "call"
    /\ callResult' = parsePrice(callArgs.priceStr)
    /\ pc' = "done"
    /\ UNCHANGED <<callArgs, OtherVars>>

ScrapeEbayMapsItem ==
    /\ op = "scrapeEbay" /\ pc = "map"
    /\ callResult' = [price |-> scrapedPrice(callArgs.item)]
    /\ pc' = "done"
    /\ UNCHANGED <<callArgs, OtherVars>>

ScrapeGoogleShoppingMapsItem ==
    /\ op = "scrapeGoogleShopping" /\ pc = "map"
    /\ callResult' = [price |-> scrapedPrice(callArgs.item)]
    /\ pc' = "done"
    /\ UNCHANGED <<callArgs, OtherVars>>

SearchListingsMapsItem ==
    /\ op = "searchListings" /\ pc = "map"
    /\ callResult' = [price |-> salePriceOf(callArgs.item)]
    /\ pc' = "done"
    /\ UNCHANGED <<callArgs, OtherVars>>

-----------------------------------------------------------------------------
(* FacebookMarketplaceService.getMarketAnalysis, after searchListings resolves *)

GetMarketAnalysisSummarises ==
    /\ op = "getMarketAnalysis" /\ pc = "searchListings"
    /\ callResult' = getMarketAnalysis(callArgs.listings)
    /\ pc' = "done"
    /\ UNCHANGED <<callArgs, OtherVars>>

-----------------------------------------------------------------------------
(* EnhancedAIService.analyzeProduct, steps 6 to 8 *)

\* the loops and the sort run without an await in between
ProcessComparableListingsSorts ==
    /\ op = "analyzeProduct" /\ pc = "processComparableListings"
    /\ callResult' = [comparables |->
                          sortBySimilarity(collectComparables(callArgs.productTitle,
                                                              callArgs.marketData)),
                      next |-> 1, rejected |-> FALSE]
    /\ pc' = "store"
    /\ UNCHANGED <<callArgs, OtherVars>>

ToStore == Take(callResult.comparables, StoreLimit)

\* await prisma.comparableListing.create(...) resolves
ComparableCreateResolves ==
    /\ op = "analyzeProduct" /\ pc = "store"
    /\ callResult.next <= Len(ToStore)
    /\ callResult' = [callResult EXCEPT !.next = @ + 1]
    /\ UNCHANGED <<pc, callArgs, OtherVars>>

\* ... or rejects: the catch logs the error and the loop goes on
ComparableCreateRejects ==
    /\ op = "analyzeProduct" /\ pc = "store"
    /\ callResult.next <= Len(ToStore)
    /\ callResult' = [callResult EXCEPT !.next = @ + 1, !.rejected = TRUE]
    /\ UNCHANGED <<pc, callArgs, OtherVars>>

\* return comparables
ProcessComparableListingsReturns ==
    /\ op = "analyzeProduct" /\ pc = "store"
    /\ callResult.next > Len(ToStore)
    /\ pc' = "compileMarketAnalysis"
    /\ UNCHANGED <<callArgs, callResult, OtherVars>>

\* steps 7 and 8 resolve and the analysis is returned
AnalyzeProductReturns ==
    /\ op = "analyzeProduct" /\ pc = "compileMarketAnalysis"
    /\ callResult' = [comparables |-> callResult.comparables,
                      next |-> callResult.next, rejected |-> callResult.rejected,
                      comparableListings |-> Take(callResult.comparables, TopComparables)]
    /\ pc' = "done"
    /\ UNCHANGED <<callArgs, OtherVars>>

\* step 7 or 8 throws: the outer catch rethrows a new Error
AnalyzeProductThrows ==
    /\ op = "analyzeProduct" /\ pc = "compileMarketAnalysis"
    /\ pc' = "failed"
    /\ UNCHANGED <<callArgs, callResult, OtherVars>>

-----------------------------------------------------------------------------
(* ApifyService.calculateSimilarity, called once *)

CalculateSimilarity ==
    /\ op = "calculateSimilarity" /\ pc = "call"
    /\ simResult' = calculateSimilarity(title1, title2)
    /\ pc' = "done"
    /\ UNCHANGED labelVars
    /\ UNCHANGED auxVars
    /\ UNCHANGED <<op, title1, title2, productData, marketData, options, env,
                   enhanced, locals, analysis, mdOptions, mdResults, mdPending>>

-----------------------------------------------------------------------------
(* ApifyService.getMarketData *)

\* the synchronous prefix: build `results`, start the scrapes that are not
\* switched off (`options.includeX !== false`), await Promise.all
GetMarketDataCall ==
    /\ op = "getMarketData" /\ pc = "call"
    /\ mdResults' = NoResults
    /\ mdPending' = (IF mdOptions.includeEbay THEN {"eBay"} ELSE {})
                      \cup (IF mdOptions.includeGoogleShopping
                            THEN {"Google Shopping"} ELSE {})
    /\ pc' = "awaitAll"
    /\ UNCHANGED labelVars
    /\ UNCHANGED auxVars
    /\ UNCHANGED <<op, title1, title2, simResult, productData, marketData, options,
                   env, enhanced, locals, analysis, mdOptions>>

\* scrapeEbay(...).then(data => ...)
EbayScrapeFulfils ==
    /\ op = "getMarketData" /\ pc = "awaitAll"
    /\ "eBay" \in mdPending /\ env.ebayScrape = "ok"
    /\ mdResults' = [mdResults EXCEPT
                        !.ebay = env.ebayItems,
                        !.summary.platforms = Append(@, "eBay")]
    /\ mdPending' = mdPending \ {"eBay"}
    /\ UNCHANGED labelVars
    /\ UNCHANGED auxVars
    /\ UNCHANGED <<op, pc, title1, title2, simResult, productData, marketData, options,
                   env, enhanced, locals, analysis, mdOptions>>

\* a catch that lists the platform all the same
EbayScrapeRejects_NamesPlatform ==
    /\ op = "getMarketData" /\ pc = "awaitAll"
    /\ "eBay" \in mdPending /\ env.ebayScrape = "throws"
    /\ mdResults' = [mdResults EXCEPT !.ebay = <<>>,
                                      !.summary.platforms = Append(@, "eBay")]
    /\ mdPending' = mdPending \ {"eBay"}
    /\ UNCHANGED labelVars
    /\ UNCHANGED auxVars
    /\ UNCHANGED <<op, pc, title1, title2, simResult, productData, marketData, options,
                   env, enhanced, locals, analysis, mdOptions>>

\* scrapeEbay(...).catch(error => ...)
EbayScrapeRejects ==
    /\ op = "getMarketData" /\ pc = "awaitAll"
    /\ "eBay" \in mdPending /\ env.ebayScrape = "throws"
    /\ mdResults' = [mdResults EXCEPT !.ebay = <<>>]
    /\ mdPending' = mdPending \ {"eBay"}
    /\ UNCHANGED labelVars
    /\ UNCHANGED auxVars
    /\ UNCHANGED <<op, pc, title1, title2, simResult, productData, marketData, options,
                   env, enhanced, locals, analysis, mdOptions>>

\* scrapeGoogleShopping(...).then(data => ...)
GoogleScrapeFulfils ==
    /\ op = "getMarketData" /\ pc = "awaitAll"
    /\ "Google Shopping" \in mdPending /\ env.googleScrape = "ok"
    /\ mdResults' = [mdResults EXCEPT
                        !.googleShopping = env.googleItems,
                        !.summary.platforms = Append(@, "Google Shopping")]
    /\ mdPending' = mdPending \ {"Google Shopping"}
    /\ UNCHANGED labelVars
    /\ UNCHANGED auxVars
    /\ UNCHANGED <<op, pc, title1, title2, simResult, productData, marketData, options,
                   env, enhanced, locals, analysis, mdOptions>>

\* scrapeGoogleShopping(...).catch(error => ...)
GoogleScrapeRejects ==
    /\ op = "getMarketData" /\ pc = "awaitAll"
    /\ "Google Shopping" \in mdPending /\ env.googleScrape = "throws"
    /\ mdResults' = [mdResults EXCEPT !.googleShopping = <<>>]
    /\ mdPending' = mdPending \ {"Google Shopping"}
    /\ UNCHANGED labelVars
    /\ UNCHANGED auxVars
    /\ UNCHANGED <<op, pc, title1, title2, simResult, productData, marketData, options,
                   env, enhanced, locals, analysis, mdOptions>>

\* Promise.all(promises) resolves; the summary is computed and results returned
GetMarketDataReturns ==
    /\ op = "getMarketData" /\ pc = "awaitAll"
    /\ mdPending = {}
    /\ mdResults' = summarize(mdResults)
    /\ pc' = "done"
    /\ UNCHANGED labelVars
    /\ UNCHANGED auxVars
    /\ UNCHANGED <<op, title1, title2, simResult, productData, marketData, options,
                   env, enhanced, locals, analysis, mdOptions, mdPending>>

-----------------------------------------------------------------------------
(* DynamicPricingService.analyzePricing *)

\* the awaited collaborator calls, in the order analyzePricing reaches them
ExternalCalls == <<"generateSearchQueries", "getMarketAnalysis",
                   "findSimilarListings", "analyzeMarketTrends">>

\* how the collaborator behind an awaited call behaves
Answer(call) ==
    CASE call = "generateSearchQueries" -> env.queries
      [] call = "getMarketAnalysis"     -> env.fbAnalysis
      [] call = "findSimilarListings"   -> env.fbSimilar
      [] call = "analyzeMarketTrends"   -> env.trends

\* analyzePricing is suspended at `await call` and the promise settles in one
\* of the given ways
Awaiting(call, outcomes) ==
    op = "analyzePricing" /\ pc = call /\ Answer(call) \in outcomes

\* mutant: the quick-sale price is 5% above the competitive price
PricesFrom_VelocityAbove(enhancedMarketData) ==
    LET basePrice == calculateBasePrice(marketData, enhancedMarketData)
        conditionAdjustedPrice ==
            applyConditionAdjustment(basePrice, productData.condition)
        categoryAdjustedPrice ==
            applyCategoryAdjustment(conditionAdjustedPrice, productData.category,
                                    productData.brand)
        competitivePrice ==
            applyCompetitivePositioning(categoryAdjustedPrice,
                                        OrElse(options.competitivePosition, "competitive"))
    IN  [computed |-> TRUE,
         basePrice |-> basePrice,
         conditionAdjustedPrice |-> conditionAdjustedPrice,
         categoryAdjustedPrice |-> categoryAdjustedPrice,
         competitivePrice |-> competitivePrice,
         velocityPrice |-> RMul(competitivePrice, Rat(105, 100)),
         marginPrice |-> RMul(competitivePrice, Rat(11, 10))]

\* steps 2 to 6: everything between gatherEnhancedMarketData and the trend await
PricesFrom(enhancedMarketData) ==
    LET basePrice == calculateBasePrice(marketData, enhancedMarketData)
        conditionAdjustedPrice ==
            applyConditionAdjustment(basePrice, productData.condition)
        categoryAdjustedPrice ==
            applyCategoryAdjustment(conditionAdjustedPrice, productData.category,
                                    productData.brand)
        competitivePrice ==
            applyCompetitivePositioning(categoryAdjustedPrice,
                                        OrElse(options.competitivePosition, "competitive"))
    IN  [computed |-> TRUE,
         basePrice |-> basePrice,
         conditionAdjustedPrice |-> conditionAdjustedPrice,
         categoryAdjustedPrice |-> categoryAdjustedPrice,
         competitivePrice |-> competitivePrice,
         velocityPrice |-> RMul(competitivePrice, Rat(85, 100)),
         marginPrice |-> RMul(competitivePrice, Rat(11, 10))]

AnalysisOf_RemembersCalls(own, enhancedMarketData, marketTrends) ==
    LET recommendedPrice ==
            IF pc = "done" \/ second.pc = "done"
            THEN own.marginPrice
            ELSE selectOptimalPrice(own.competitivePrice, own.velocityPrice,
                                    own.marginPrice, OrElse(options.strategy, "balanced"),
                                    marketTrends)
    IN  [status |-> "returned",
         recommendedPrice |-> recommendedPrice,
         priceRange |-> [min |-> own.velocityPrice, max |-> own.marginPrice],
         competitivePosition |->
             determineCompetitivePosition(recommendedPrice, own.basePrice),
         velocityOptimized |-> own.velocityPrice,
         marginOptimized |-> own.marginPrice,
         conditionAdjustment |-> getConditionMultiplier(productData.condition.grade),
         marketTrends |-> marketTrends,
         comparableAnalysis |-> analyzeComparables(marketData, enhancedMarketData)]

\* step 8 and the returned object, from the locals of the call that runs it
AnalysisOf(own, enhancedMarketData, marketTrends) ==
    LET recommendedPrice ==
            selectOptimalPrice(own.competitivePrice, own.velocityPrice,
                               own.marginPrice, OrElse(options.strategy, "balanced"),
                               marketTrends)
    IN  [status |-> "returned",
         recommendedPrice |-> recommendedPrice,
         priceRange |-> [min |-> own.velocityPrice, max |-> own.marginPrice],
         competitivePosition |->
             determineCompetitivePosition(recommendedPrice, own.basePrice),
         velocityOptimized |-> own.velocityPrice,
         marginOptimized |-> own.marginPrice,
         conditionAdjustment |-> getConditionMultiplier(productData.condition.grade),
         marketTrends |-> marketTrends,
         comparableAnalysis |-> analyzeComparables(marketData, enhancedMarketData)]

AnalysisFrom(marketTrends) == AnalysisOf(locals, enhanced, marketTrends)

\* what analyzeMarketTrends resolves with when the Gemini method does not reject
resolvedTrends ==
    LET trendAnalysis == IF env.trends = "modelFails"
                         THEN geminiTrendFallback ELSE env.trend
    IN  [direction  |-> OrElse(trendAnalysis.direction, "stable"),
         confidence |-> IF Truthy(trendAnalysis.confidence)
                        THEN trendAnalysis.confidence.value ELSE Rat(5, 10),
         factors    |-> trendAnalysis.factors]

GatherDone(enhancedMarketData) ==
    /\ enhanced' = enhancedMarketData
    /\ locals' = PricesFrom(enhancedMarketData)
    /\ pc' = "analyzeMarketTrends"

\* geminiService.generateSearchQueries resolves
GenerateSearchQueriesReturns ==
    /\ Awaiting("generateSearchQueries", {"ok"})
    /\ pc' = "getMarketAnalysis"
    /\ UNCHANGED labelVars
    /\ UNCHANGED auxVars
    /\ UNCHANGED <<op, title1, title2, simResult, productData, marketData, options,
                   env, enhanced, locals, analysis, mdOptions, mdResults, mdPending>>

\* geminiService.generateSearchQueries rejects: the outer catch returns no listings
GenerateSearchQueriesThrows ==
    /\ Awaiting("generateSearchQueries", {"throws"})
    /\ GatherDone(EmptyFacebook)
    /\ UNCHANGED labelVars
    /\ UNCHANGED auxVars
    /\ UNCHANGED <<op, title1, title2, simResult, productData, marketData, options,
                   env, analysis, mdOptions, mdResults, mdPending>>

\* facebookMarketplaceService.getMarketAnalysis resolves
GetMarketAnalysisReturns ==
    /\ Awaiting("getMarketAnalysis", {"ok"})
    /\ pc' = "findSimilarListings"
    /\ UNCHANGED labelVars
    /\ UNCHANGED auxVars
    /\ UNCHANGED <<op, title1, title2, simResult, productData, marketData, options,
                   env, enhanced, locals, analysis, mdOptions, mdResults, mdPending>>

\* ... rejects: the inner catch keeps the empty facebookData
GetMarketAnalysisThrows ==
    /\ Awaiting("getMarketAnalysis", {"throws"})
    /\ GatherDone(EmptyFacebook)
    /\ UNCHANGED labelVars
    /\ UNCHANGED auxVars
    /\ UNCHANGED <<op, title1, title2, simResult, productData, marketData, options,
                   env, analysis, mdOptions, mdResults, mdPending>>

\* facebookMarketplaceService.findSimilarListings resolves
FindSimilarListingsReturns ==
    /\ Awaiting("findSimilarListings", {"ok"})
    /\ GatherDone([facebook |-> [listings |-> findSimilarListings(env.fbRaw)]])
    /\ UNCHANGED labelVars
    /\ UNCHANGED auxVars
    /\ UNCHANGED <<op, title1, title2, simResult, productData, marketData, options,
                   env, analysis, mdOptions, mdResults, mdPending>>

\* ... rejects: the inner catch keeps the empty facebookData
FindSimilarListingsThrows ==
    /\ Awaiting("findSimilarListings", {"throws"})
    /\ GatherDone(EmptyFacebook)
    /\ UNCHANGED labelVars
    /\ UNCHANGED auxVars
    /\ UNCHANGED <<op, title1, title2, simResult, productData, marketData, options,
                   env, analysis, mdOptions, mdResults, mdPending>>

\* geminiService.analyzeMarketTrends resolves: missing fields take their defaults
AnalyzeMarketTrendsReturns ==
    /\ Awaiting("analyzeMarketTrends", {"ok", "modelFails"})
    /\ analysis' = AnalysisFrom(resolvedTrends)
    /\ pc' = "done"
    /\ UNCHANGED labelVars
    /\ UNCHANGED auxVars
    /\ UNCHANGED <<op, title1, title2, simResult, productData, marketData, options,
                   env, enhanced, locals, mdOptions, mdResults, mdPending>>

\* ... rejects: the catch supplies the stable trend
AnalyzeMarketTrendsThrows ==
    /\ Awaiting("analyzeMarketTrends", {"throws"})
    /\ analysis' = AnalysisFrom(trendFallback)
    /\ pc' = "done"
    /\ UNCHANGED labelVars
    /\ UNCHANGED auxVars
    /\ UNCHANGED <<op, title1, title2, simResult, productData, marketData, options,
                   env, enhanced, locals, mdOptions, mdResults, mdPending>>

-----------------------------------------------------------------------------
(* A second analyzePricing call on the same DynamicPricingService object, made *)
(* with the same arguments while the first is in progress; the collaborators *)
(* answer it as they answer the first                                        *)

\* the call's own position and locals after the promise it awaits has settled
AfterAwait(inv) ==
    LET gathered(enhancedMarketData) ==
            [inv EXCEPT !.pc = "analyzeMarketTrends",
                        !.enhanced = enhancedMarketData,
                        !.locals = PricesFrom(enhancedMarketData)]
    IN  CASE inv.pc = "generateSearchQueries" ->
               IF env.queries = "ok" THEN [inv EXCEPT !.pc = "getMarketAnalysis"]
               ELSE gathered(EmptyFacebook)
          [] inv.pc = "getMarketAnalysis" ->
               IF env.fbAnalysis = "ok" THEN [inv EXCEPT !.pc = "findSimilarListings"]
               ELSE gathered(EmptyFacebook)
          [] inv.pc = "findSimilarListings" ->
               IF env.fbSimilar = "ok"
               THEN gathered([facebook |-> [listings |-> findSimilarListings(env.fbRaw)]])
               ELSE gathered(EmptyFacebook)
          [] inv.pc = "analyzeMarketTrends" ->
               [inv EXCEPT !.pc = "done",
                           !.analysis =
                               AnalysisOf(inv.locals, inv.enhanced,
                                          IF env.trends = "throws"
                                          THEN trendFallback ELSE resolvedTrends)]

SecondCallSettles ==
    /\ op = "analyzePricing"
    /\ \E i \in DOMAIN ExternalCalls : second.pc = ExternalCalls[i]
    /\ Answer(second.pc) # Unresponsive
    /\ second' = AfterAwait(second)
    /\ UNCHANGED labelVars
    /\ UNCHANGED <<op, pc, title1, title2, simResult, productData, marketData, options,
                   env, enhanced, locals, analysis, mdOptions, mdResults, mdPending,
                   callArgs, callResult>>

-----------------------------------------------------------------------------

Next ==
    \/ CalculateSimilarity
    \/ GetMarketDataCall
    \/ EbayScrapeFulfils
    \/ EbayScrapeRejects
    \/ GoogleScrapeFulfils
    \/ GoogleScrapeRejects
    \/ GetMarketDataReturns
    \/ GenerateSearchQueriesReturns
    \/ GenerateSearchQueriesThrows
    \/ GetMarketAnalysisReturns
    \/ GetMarketAnalysisThrows
    \/ FindSimilarListingsReturns
    \/ FindSimilarListingsThrows
    \/ AnalyzeMarketTrendsReturns
    \/ AnalyzeMarketTrendsThrows
    \/ DetermineCompetitivePosition
    \/ SecondCallSettles
    \/ ParsePrice
    \/ ScrapeEbayMapsItem
    \/ ScrapeGoogleShoppingMapsItem
    \/ SearchListingsMapsItem
    \/ GetMarketAnalysisSummarises
    \/ ProcessComparableListingsSorts
    \/ ComparableCreateResolves
    \/ ComparableCreateRejects
    \/ ProcessComparableListingsReturns
    \/ AnalyzeProductReturns
    \/ AnalyzeProductThrows

Spec == Init /\ [][Next]_vars

-----------------------------------------------------------------------------
(* Vocabulary of the properties *)

PricingComputed == op = "analyzePricing" /\ locals.computed
PricingReturned == op = "analyzePricing" /\ pc = "done" /\ analysis.status = "returned"
SimilarityDone  == op = "calculateSimilarity" /\ pc = "done"
MarketDataDone  == op = "getMarketData" /\ pc = "done"

\* every price offered to the aggregator, in the order eBay, Google Shopping, Facebook
OfferedPrices ==
    (IF marketData.hasEbay
     THEN [i \in DOMAIN marketData.ebay |-> marketData.ebay[i].price] ELSE <<>>)
    \o (IF marketData.hasGoogleShopping
        THEN [i \in DOMAIN marketData.googleShopping |-> marketData.googleShopping[i].price]
        ELSE <<>>)
    \o [i \in DOMAIN enhanced.facebook.listings |-> enhanced.facebook.listings[i].salePrice]

PooledPositive == SelectSeq(OfferedPrices, LAMBDA p : 0 < p)

\* the k-th smallest element of a non-empty sequence, without sorting it
KthSmallest(s, k) ==
    CHOOSE v \in Range(s) :
        /\ Cardinality({i \in DOMAIN s : s[i] < v}) < k
        /\ k <= Cardinality({i \in DOMAIN s : s[i] <= v})

StandardMedian(s) ==
    LET n == Len(s)
    IN  IF n = 0 THEN Zero
        ELSE IF n % 2 = 1 THEN Num(KthSmallest(s, (n + 1) \div 2))
        ELSE Rat(KthSmallest(s, n \div 2) + KthSmallest(s, (n \div 2) + 1), 2)

\* the inputs with every listing priced <= 0 removed
WithoutNonPositive(items) == SelectSeq(items, LAMBDA l : 0 < l.price)
StrippedMarket ==
    [marketData EXCEPT !.ebay = WithoutNonPositive(@),
                       !.googleShopping = WithoutNonPositive(@)]
StrippedEnhanced ==
    [facebook |-> [listings |->
        SelectSeq(enhanced.facebook.listings, LAMBDA l : 0 < l.salePrice)]]
StrippedResults ==
    [mdResults EXCEPT !.ebay = WithoutNonPositive(@),
                      !.googleShopping = WithoutNonPositive(@),
                      !.summary = EmptySummary(mdResults.summary.platforms)]

HasNonPositive(items) == \E i \in DOMAIN items : items[i].price <= 0
HasPositive(items)    == \E i \in DOMAIN items : 0 < items[i].price

\* the whitespace-separated words of a title, lower-cased
Tokens(t) == Range(Words(t)) \ {<<>>}

\* the multiplier the condition step applied, read off the two prices
AppliedConditionMultiplier == RDiv(locals.conditionAdjustedPrice, locals.basePrice)

Clamp(x, lo, hi) == IF RLt(x, lo) THEN lo ELSE IF RLt(hi, x) THEN hi ELSE x

-----------------------------------------------------------------------------
(* Properties *)

\* C1: the base price is the standard median of the strictly positive prices
\* pooled from eBay, Google Shopping and Facebook Marketplace: the middle value
\* for an odd count, the mean of the two middle values for an even count, and
\* 0 when no price is positive.
C1_BasePriceIsMedian ==
    PricingComputed => locals.basePrice = StandardMedian(PooledPositive)

\* C1 witness: four positive prices from three platforms, offered out of
\* order, whose two middle values differ.
C1_Witness ==
    /\ PricingComputed
    /\ Len(PooledPositive) = 4
    /\ Len(enhanced.facebook.listings) = 1
    /\ KthSmallest(PooledPositive, 2) # KthSmallest(PooledPositive, 3)
    /\ PooledPositive[2] < PooledPositive[1]
    /\ HasNonPositive(marketData.ebay) = FALSE

\* C2: comparableAnalysis is computed over the same pooled prices as the base
\* price: its medianPrice is the base price and its totalComparables is the
\* number of positive prices pooled, Facebook Marketplace listings included.
C2_ComparablesMatchBasePrice ==
    PricingReturned =>
        /\ analysis.comparableAnalysis.medianPrice = locals.basePrice
        /\ analysis.comparableAnalysis.totalComparables = Len(PooledPositive)

\* C3: listings priced <= 0 change no statistic: the base price, the
\* comparableAnalysis and the getMarketData summary are what the same call
\* yields once every such listing is removed from its input.
C3_NonPositiveExcluded ==
    /\ PricingComputed =>
          locals.basePrice = calculateBasePrice(StrippedMarket, StrippedEnhanced)
    /\ PricingReturned =>
          analysis.comparableAnalysis = analyzeComparables(StrippedMarket, StrippedEnhanced)
    /\ MarketDataDone =>
          mdResults.summary = summarize(StrippedResults).summary

\* C3 witness: a returned analysis whose eBay input mixes a zero-priced or
\* negative listing with a positive one.
C3_Witness ==
    /\ PricingReturned
    /\ HasNonPositive(marketData.ebay) /\ HasPositive(marketData.ebay)
    /\ analysis.comparableAnalysis.totalComparables > 0

\* C4: the similarity of two titles lies in [0, 1], repeated tokens included.
C4_SimilarityInUnitInterval ==
    SimilarityDone => RLe(Zero, simResult) /\ RLe(simResult, Num(1))

\* C5: similarity is symmetric in its two titles.
C5_SimilaritySymmetric ==
    SimilarityDone => simResult = calculateSimilarity(title2, title1)

\* C6: similarity is exactly 1 for identical non-empty token sets and exactly 0
\* for titles that share no token.
C6_SimilarityOneAndZero ==
    SimilarityDone =>
        /\ (Tokens(title1) = Tokens(title2) /\ Tokens(title1) # {}) => simResult = Num(1)
        /\ (Tokens(title1) \cap Tokens(title2) = {}) => simResult = Zero

\* C7: two titles without any token have similarity 0.
C7_EmptyTitlesScoreZero ==
    SimilarityDone =>
        ((Tokens(title1) = {} /\ Tokens(title2) = {}) => simResult = Zero)

C9_ScoreFineTuning ==
    (/\ PricingComputed /\ RLt(Zero, locals.basePrice)
     /\ (productData.condition.score.present =>
            /\ RLe(Zero, productData.condition.score.value)
            /\ RLe(productData.condition.score.value, Num(1)))) =>
        LET g == getConditionMultiplier(productData.condition.grade)
            a == IF productData.condition.score.present
                 THEN RMul(RAdd(productData.condition.score.value, Rat(-1, 2)), Rat(1, 5))
                 ELSE Zero
        IN  AppliedConditionMultiplier = Clamp(RAdd(g, a), Rat(1, 10), Num(1))

\* C10: the returned conditionAdjustment is the multiplier the condition step
\* applied: condition-adjusted price = base price * conditionAdjustment.
C10_ConditionAdjustmentIsApplied ==
    PricingReturned =>
        locals.conditionAdjustedPrice = RMul(locals.basePrice, analysis.conditionAdjustment)

-----------------------------------------------------------------------------
(* Strategy selection and the adjustment chain *)

\* the strategy and positioning in force after the `||` defaults
StrategyInForce == OrElse(options.strategy, "balanced")
PositionInForce == OrElse(options.competitivePosition, "competitive")

TrendIsConfident == RLt(Rat(7, 10), analysis.marketTrends.confidence)

\* what the balanced rule selects, from the returned trend and the three prices
BalancedChoice ==
    IF analysis.marketTrends.direction = "up" /\ TrendIsConfident
    THEN analysis.marginOptimized
    ELSE IF analysis.marketTrends.direction = "down" /\ TrendIsConfident
         THEN analysis.velocityOptimized
         ELSE locals.competitivePrice

\* C11: with strategy 'velocity' the recommended price is exactly
\* competitivePrice * 0.85 and with strategy 'margin' exactly
\* competitivePrice * 1.10, whatever the trend direction and confidence.
C11_ExplicitStrategyIgnoresTrend ==
    PricingReturned =>
        /\ options.strategy = "velocity" =>
              analysis.recommendedPrice = RMul(locals.competitivePrice, Rat(85, 100))
        /\ options.strategy = "margin" =>
              analysis.recommendedPrice = RMul(locals.competitivePrice, Rat(110, 100))

\* C11 witness: strategy 'velocity' returned 0.85 of a positive competitive
\* price although the trend was a confident 'up'.
C11_Witness ==
    /\ PricingReturned
    /\ options.strategy = "velocity"
    /\ analysis.marketTrends.direction = "up"
    /\ analysis.marketTrends.confidence = Rat(9, 10)
    /\ RLt(Zero, locals.competitivePrice)
    /\ analysis.recommendedPrice = RMul(locals.competitivePrice, Rat(85, 100))

\* C12: with strategy 'balanced' the recommended price is marginOptimized for
\* direction 'up' with confidence > 0.7, velocityOptimized for direction 'down'
\* with confidence > 0.7, and the competitive price otherwise, confidence of
\* exactly 0.7 included.
C12_BalancedFollowsConfidentTrend ==
    (PricingReturned /\ options.strategy = "balanced") =>
        /\ analysis.recommendedPrice = BalancedChoice
        /\ analysis.marginOptimized = RMul(locals.competitivePrice, Rat(110, 100))
        /\ analysis.velocityOptimized = RMul(locals.competitivePrice, Rat(85, 100))
        /\ analysis.marketTrends.confidence = Rat(7, 10) =>
              analysis.recommendedPrice = locals.competitivePrice

\* C12 witness: balanced, direction 'up', confidence exactly 0.7, and the
\* positive competitive price (not the margin price) was recommended.
C12_Witness ==
    /\ PricingReturned
    /\ options.strategy = "balanced"
    /\ analysis.marketTrends.direction = "up"
    /\ analysis.marketTrends.confidence = Rat(7, 10)
    /\ RLt(Zero, locals.competitivePrice)
    /\ analysis.recommendedPrice = locals.competitivePrice

\* the factors of the chain, read from the request
ConditionFactor == finalMultiplier(productData.condition)
CategoryFactor ==
    LookupOr(categoryMultipliers, ToLowerCase(productData.category), Rat(60, 100))
BrandFactor ==
    LookupOr(brandMultipliers, ToLowerCase(productData.brand), Rat(60, 100))
BlendFactor == RAdd(RMul(Rat(7, 10), CategoryFactor), RMul(Rat(3, 10), BrandFactor))
PositioningFactor ==
    CASE PositionInForce = "aggressive" -> Rat(90, 100)
      [] PositionInForce = "premium"    -> Rat(115, 100)
      [] OTHER                          -> Rat(95, 100)

\* the request of the worked example: listings at 100, 120 and 80, grade good
\* without a score, electronics, unknown brand, competitive positioning
IsScenario ==
    /\ op = "analyzePricing"
    /\ OfferedPrices = <<100, 120, 80>>
    /\ productData.condition = [grade |-> S_good, score |-> NoScore]
    /\ productData.category = S_electronics /\ productData.brand = S_unknown
    /\ options.competitivePosition = "competitive"

TrendCallFailed == env.trends \in {"modelFails", "throws"}

\* C15: when the market-trend call fails analyzePricing still returns, with
\* marketTrends = {direction: 'stable', confidence: 0.5,
\* factors: ['insufficient data']}, so that the balanced strategy recommends
\* the competitive price.
C15_TrendFailureDefault ==
    (op = "analyzePricing" /\ pc = "done" /\ TrendCallFailed) =>
        /\ analysis.status = "returned"
        /\ analysis.marketTrends =
              [direction |-> "stable", confidence |-> Rat(5, 10),
               factors |-> <<"insufficient data">>]
        /\ StrategyInForce = "balanced" =>
              analysis.recommendedPrice = locals.competitivePrice

\* C15 (amended): when the market-trend call fails analyzePricing still
\* returns, with marketTrends = {direction: 'stable', confidence: 0.5,
\* factors: ['Insufficient data for trend analysis']}, so that the balanced
\* strategy recommends the competitive price.
C15_TrendFailureFallback ==
    (op = "analyzePricing" /\ pc = "done" /\ TrendCallFailed) =>
        /\ analysis.status = "returned"
        /\ analysis.marketTrends =
              [direction |-> "stable", confidence |-> Rat(5, 10),
               factors |-> <<"Insufficient data for trend analysis">>]
        /\ StrategyInForce = "balanced" =>
              analysis.recommendedPrice = locals.competitivePrice

\* C15 witness: the trend call rejected under the balanced strategy and the
\* positive competitive price was recommended.
C15_Witness ==
    /\ PricingReturned
    /\ env.trends = "throws" /\ options.strategy = "balanced"
    /\ analysis.marketTrends.direction = "stable"
    /\ RLt(Zero, locals.competitivePrice)
    /\ analysis.recommendedPrice = locals.competitivePrice

KnownStrategies == {"velocity", "margin", "balanced"}
KnownPositions  == {"aggressive", "competitive", "premium"}

\* C16: an unrecognized strategy behaves exactly as 'balanced' and an
\* unrecognized competitive position exactly as 'competitive' (factor 0.95);
\* neither raises an error.
C16_UnrecognizedOptionsTakeDefaults ==
    (op = "analyzePricing" /\ pc = "done") =>
        /\ analysis.status = "returned"
        /\ options.strategy \notin KnownStrategies =>
              analysis.recommendedPrice = BalancedChoice
        /\ options.competitivePosition \notin KnownPositions =>
              locals.competitivePrice = RMul(locals.categoryAdjustedPrice, Rat(95, 100))

\* C16 witness: strategy 'turbo' with position 'luxury' under a confident 'up'
\* trend returned the margin price of a positive competitive price.
C16_Witness ==
    /\ PricingReturned
    /\ options.strategy = "turbo" /\ options.competitivePosition = "luxury"
    /\ analysis.marketTrends.direction = "up" /\ TrendIsConfident
    /\ RLt(Zero, locals.competitivePrice)
    /\ analysis.recommendedPrice = analysis.marginOptimized

\* the name a label starts with
LabelName(full) ==
    CASE full = "Aggressive - Priced for quick sale"   -> "Aggressive"
      [] full = "Competitive - Priced to move"         -> "Competitive"
      [] full = "Market Rate - Fair market pricing"    -> "Market Rate"
      [] full = "Premium - Higher margin positioning"  -> "Premium"
      [] full = "Luxury - Premium market positioning"  -> "Luxury"
      [] OTHER                                         -> "?"

ExpectedLabel(r) ==
    CASE RLt(r, Rat(85, 100))                              -> "Aggressive"
      [] RLe(Rat(85, 100), r) /\ RLt(r, Rat(95, 100))      -> "Competitive"
      [] RLe(Rat(95, 100), r) /\ RLt(r, Rat(105, 100))     -> "Market Rate"
      [] RLe(Rat(105, 100), r) /\ RLt(r, Rat(115, 100))    -> "Premium"
      [] RLe(Rat(115, 100), r)                             -> "Luxury"
      [] OTHER                                             -> "none"

LabelDone == op = "determineCompetitivePosition" /\ pc = "done"

\* C17: for a positive base price the label follows r = recommendedPrice /
\* basePrice: 'Aggressive' for r < 0.85, 'Competitive' for 0.85 <= r < 0.95,
\* 'Market Rate' for 0.95 <= r < 1.05, 'Premium' for 1.05 <= r < 1.15 and
\* 'Luxury' for r >= 1.15.
C17_LabelFollowsRatio ==
    /\ (LabelDone /\ RLt(Zero, labelArgs.basePrice)) =>
          LabelName(label) =
              ExpectedLabel(RDiv(labelArgs.recommendedPrice, labelArgs.basePrice))
    /\ (PricingReturned /\ RLt(Zero, locals.basePrice)) =>
          LabelName(analysis.competitivePosition) =
              ExpectedLabel(RDiv(analysis.recommendedPrice, locals.basePrice))

\* C17 witness: a ratio of exactly 1.15 was labelled 'Luxury'.
C17_Witness ==
    /\ LabelDone
    /\ labelArgs = [recommendedPrice |-> Num(115), basePrice |-> Num(100)]
    /\ LabelName(label) = "Luxury"

-----------------------------------------------------------------------------
(* Order of the adjustments, and the external calls *)

ChainSteps == {"condition", "category", "positioning"}
ChainOrders ==
    {o \in [1..3 -> ChainSteps] : \A i, j \in 1..3 : o[i] = o[j] => i = j}
ListedOrder == <<"condition", "category", "positioning">>

\* one adjustment of the request, applied to any running price
ApplyStep(step, price) ==
    CASE step = "condition" -> applyConditionAdjustment(price, productData.condition)
      [] step = "category"  ->
            applyCategoryAdjustment(price, productData.category, productData.brand)
      [] OTHER -> applyCompetitivePositioning(price, PositionInForce)

\* the chain run on the base price with its steps in the order o
ChainIn(o) == ApplyStep(o[3], ApplyStep(o[2], ApplyStep(o[1], locals.basePrice)))

\* C18: the chain is order-dependent: for a positive base price, running the
\* condition, category+brand and positioning adjustments in any order other
\* than the listed one changes the competitive price.
C18_ReorderingChangesPrice ==
    (PricingComputed /\ RLt(Zero, locals.basePrice)) =>
        \A o \in ChainOrders \ {ListedOrder} : ChainIn(o) # locals.competitivePrice

\* C18 (amended): the chain runs condition, then category+brand, then
\* positioning; each adjustment multiplies the price by a factor that does not
\* depend on the price, so in exact arithmetic every order of the three gives
\* the same competitive price.
C18_OrderDoesNotMatter ==
    (PricingComputed /\ RLt(Zero, locals.basePrice)) =>
        /\ ChainIn(ListedOrder) = locals.competitivePrice
        /\ \A o \in ChainOrders : ChainIn(o) = locals.competitivePrice

\* C18 witness: a positive base price whose three factors all differ from 1,
\* priced the same with positioning applied first and condition last.
C18_Witness ==
    /\ PricingComputed /\ RLt(Zero, locals.basePrice)
    /\ ConditionFactor # Num(1) /\ BlendFactor # Num(1)
    /\ options.competitivePosition = "aggressive"
    /\ locals.competitivePrice # locals.basePrice
    /\ ChainIn(<<"positioning", "category", "condition">>) = locals.competitivePrice

\* the awaits of analyzePricing, from the position of the call
FetchCalls == {"generateSearchQueries", "getMarketAnalysis", "findSimilarListings"}
FetchPending == op = "analyzePricing" /\ pc \in FetchCalls
TrendCallIssued == op = "analyzePricing" /\ pc \in {"analyzeMarketTrends", "done"}

\* C19: the external calls are issued concurrently: the trend-analysis call
\* is issued without waiting for the enhanced-data fetch, so whenever the
\* fetch is still pending the trend call has been issued too.
C19_TrendCallIssuedWithFetch ==
    FetchPending => TrendCallIssued

\* the continuations analyzePricing has for an awaited call: the promise
\* resolves (the code after the await) or rejects (the enclosing catch)
HasContinuation ==
    \E i \in DOMAIN ExternalCalls :
        Awaiting(ExternalCalls[i],
                 IF ExternalCalls[i] = "analyzeMarketTrends"
                 THEN TrendOutcomes ELSE Outcomes)

\* C20: every external call is bounded by a timeout treated as a failure with
\* a default, so analyzePricing returns an analysis even if a collaborator
\* never responds: a call that has not returned is never left without a
\* further step to take.
C20_NeverWaitsForever ==
    op = "analyzePricing" => (pc = "done" \/ HasContinuation)

-----------------------------------------------------------------------------
(* Independence of calls *)

BothReturned == PricingReturned /\ second.pc = "done"

-----------------------------------------------------------------------------
(* Price parsing and normalization *)

ParsePriceDone == op = "parsePrice" /\ pc = "done"
NormalizeDone ==
    op \in {"scrapeEbay", "scrapeGoogleShopping", "searchListings"} /\ pc = "done"

Count(chars, c) == Cardinality({i \in DOMAIN chars : chars[i] = c})

\* a price string: an optional leading currency symbol, then digits, commas
\* and at most one decimal point
IsPriceString(chars) ==
    /\ \A i \in DOMAIN chars :
          chars[i] \in Digits \cup {",", "."} \/ (i = 1 /\ chars[i] = "$")
    /\ Count(chars, ".") <= 1

\* the number written by the digits and the decimal point of a price string,
\* 0 when it has no digit
WrittenNumber(chars) ==
    LET kept  == SelectSeq(chars, LAMBDA c : c \in Digits \cup {"."})
        point == IF Count(kept, ".") = 0 THEN Len(kept) + 1
                 ELSE CHOOSE i \in DOMAIN kept : kept[i] = "."
        whole == SubSeq(kept, 1, point - 1)
        frac  == SubSeq(kept, point + 1, Len(kept))
    IN  Rat(DigitsValue(whole) * Pow10(Len(frac)) + DigitsValue(frac), Pow10(Len(frac)))

\* C22: parsePrice drops every thousands separator: a string of a currency
\* symbol, digits, commas and at most one decimal point parses to the number
\* its digits and decimal point write, all commas removed; an absent or
\* unparsable price gives 0.
C22_ParsePriceDropsSeparators ==
    ParsePriceDone =>
        /\ callArgs.priceStr.kind = "absent" => callResult = Zero
        /\ (callArgs.priceStr.kind = "string" /\ IsPriceString(callArgs.priceStr.chars)) =>
              callResult = WrittenNumber(callArgs.priceStr.chars)

IsNonNegativeNumber(v) == v.kind = "number" /\ RLe(Zero, v.value)

\* C23: whatever the shape of a raw record's price field (string, number,
\* negative number, absent), every normalizer produces a listing whose price
\* is a non-negative number.
C23_NormalizedPriceNonNegative ==
    NormalizeDone => IsNonNegativeNumber(callResult.price)

-----------------------------------------------------------------------------
(* Aggregates without a positive price *)

MarketAnalysisDone == op = "getMarketAnalysis" /\ pc = "done"

NoPositive(prices) == \A i \in DOMAIN prices : prices[i] <= 0

\* the prices analyzeComparables is given: eBay and Google Shopping
ComparableOffered ==
    (IF marketData.hasEbay
     THEN [i \in DOMAIN marketData.ebay |-> marketData.ebay[i].price] ELSE <<>>)
    \o (IF marketData.hasGoogleShopping
        THEN [i \in DOMAIN marketData.googleShopping |-> marketData.googleShopping[i].price]
        ELSE <<>>)

ScrapedPrices ==
    [i \in DOMAIN mdResults.ebay |-> mdResults.ebay[i].price]
    \o [i \in DOMAIN mdResults.googleShopping |-> mdResults.googleShopping[i].price]

\* C24 for analyzeComparables
ComparablesAllZero ==
    (PricingReturned /\ NoPositive(ComparableOffered)) =>
        /\ analysis.comparableAnalysis.averagePrice = Zero
        /\ analysis.comparableAnalysis.medianPrice = Zero
        /\ analysis.comparableAnalysis.totalComparables = 0

\* C24 for the getMarketData summary
SummaryAllZero ==
    (MarketDataDone /\ NoPositive(ScrapedPrices)) =>
        /\ mdResults.summary.averagePrice = Zero
        /\ mdResults.summary.priceRange = [min |-> 0, max |-> 0]
        /\ mdResults.summary.totalListings = 0

\* C24 for the Facebook getMarketAnalysis result
MarketAnalysisAllZero ==
    (MarketAnalysisDone
        /\ NoPositive([i \in DOMAIN callArgs.listings |-> callArgs.listings[i].salePrice])) =>
        /\ callResult.averagePrice = Zero
        /\ callResult.priceRange = [min |-> Zero, max |-> Zero]
        /\ callResult.totalListings = 0

\* C24: every price aggregate (analyzeComparables, the getMarketData summary,
\* the Facebook getMarketAnalysis result) reports average, min, max and count
\* all 0 when its listing set has no price > 0, whether the set is empty or
\* holds only listings priced <= 0.
C24_EmptyAggregatesAreZero ==
    ComparablesAllZero /\ SummaryAllZero /\ MarketAnalysisAllZero

-----------------------------------------------------------------------------
(* Failing Facebook collaborators; the price distribution *)

FacebookFetchFailed ==
    "throws" \in {env.queries, env.fbAnalysis, env.fbSimilar}

\* C25: when search-query generation, the Facebook analysis or the Facebook
\* similar-listing search fails, analyzePricing still returns, Facebook
\* contributes no listing, and the base price is the median of the positive
\* eBay and Google Shopping prices the caller supplied.
C25_FacebookFailureDegrades ==
    (op = "analyzePricing" /\ pc = "done" /\ FacebookFetchFailed) =>
        /\ analysis.status = "returned"
        /\ enhanced.facebook.listings = <<>>
        /\ locals.basePrice =
              StandardMedian(SelectSeq(ComparableOffered, LAMBDA x : 0 < x))

\* C25 witness: the similar-listing search failed after the two calls before
\* it succeeded, a positive Facebook listing was available, and the base
\* price 70 is the median of the caller's 100 and 40 alone.
C25_Witness ==
    /\ PricingReturned
    /\ env.queries = "ok" /\ env.fbAnalysis = "ok" /\ env.fbSimilar = "throws"
    /\ env.fbRaw = <<[salePrice |-> 250]>>
    /\ ComparableOffered = <<100, 40>>
    /\ locals.basePrice = Num(70)

\* the bands as half-open intervals [low, high); the last has no upper end
BandLow ==
    [b \in Range(PriceBands) |->
        CASE b = "Under $25" -> 0 [] b = "$25-$50" -> 25 [] b = "$50-$100" -> 50
          [] b = "$100-$250" -> 100 [] b = "$250-$500" -> 250 [] b = "Over $500" -> 500]
InBand(price, i) ==
    /\ BandLow[PriceBands[i]] <= price
    /\ i < Len(PriceBands) => price < BandLow[PriceBands[i + 1]]

ComparablePositive == SelectSeq(ComparableOffered, LAMBDA x : 0 < x)

\* C26: every pooled positive price is counted in exactly one of the six
\* bands, lower bounds inclusive (25 in $25-$50, 500 in Over $500), so when
\* totalComparables > 0 the six counts sum to totalComparables.
C26_BandsPartitionPrices ==
    (PricingReturned /\ analysis.comparableAnalysis.totalComparables > 0) =>
        LET dist == analysis.comparableAnalysis.priceDistribution
        IN  /\ DOMAIN dist = Range(PriceBands)
            /\ \A i \in DOMAIN PriceBands :
                  dist[PriceBands[i]] =
                      Cardinality({k \in DOMAIN ComparablePositive :
                                      InBand(ComparablePositive[k], i)})
            /\ SumSeq([i \in DOMAIN PriceBands |-> dist[PriceBands[i]]])
                  = analysis.comparableAnalysis.totalComparables

\* C26 witness: prices 25 and 500 were counted in $25-$50 and Over $500.
C26_Witness ==
    /\ PricingReturned
    /\ ComparableOffered = <<25, 500>>
    /\ analysis.comparableAnalysis.totalComparables = 2
    /\ analysis.comparableAnalysis.priceDistribution["$25-$50"] = 1
    /\ analysis.comparableAnalysis.priceDistribution["Over $500"] = 1

-----------------------------------------------------------------------------
(* Comparable listings of analyzeProduct *)

AnalyzeProductDone == op = "analyzeProduct" /\ pc = "done"

\* the listings offered to the ranking, tagged with their platform
OfferedListings ==
    [i \in DOMAIN callArgs.marketData.ebay |->
        [platform |-> "ebay", title |-> callArgs.marketData.ebay[i].title]]
    \o [i \in DOMAIN callArgs.marketData.googleShopping |->
        [platform |-> "google_shopping",
         title |-> callArgs.marketData.googleShopping[i].title]]

SimilarityToProduct(l) == calculateSimilarity(callArgs.productTitle, l.title)

IncludedListings ==
    [i \in DOMAIN callResult.comparableListings |->
        [platform |-> callResult.comparableListings[i].platform,
         title |-> callResult.comparableListings[i].title]]

Copies(s, x) == Cardinality({i \in DOMAIN s : s[i] = x})

\* offered more often than included
LeftOut(l) == Copies(OfferedListings, l) > Copies(IncludedListings, l)

RankedBySimilarity ==
    LET r == callResult.comparableListings
    IN  /\ Len(r) <= 10
        /\ \A i \in DOMAIN r :
              /\ Copies(IncludedListings, IncludedListings[i])
                    <= Copies(OfferedListings, IncludedListings[i])
              /\ r[i].similarity = SimilarityToProduct(r[i])
        /\ \A i, j \in DOMAIN r : i < j => RLe(r[j].similarity, r[i].similarity)
        /\ \A k \in DOMAIN OfferedListings :
              LeftOut(OfferedListings[k]) =>
                  /\ Len(r) = 10
                  /\ \A i \in DOMAIN r :
                        RLe(SimilarityToProduct(OfferedListings[k]), r[i].similarity)

\* a create rejected and the loop moved on
CreateRejected == callResult.rejected

\* C27: the comparable listings analyzeProduct returns are ranked by descending
\* similarity: at most 10 entries, in non-increasing order of similarity to the
\* product title, no eBay or Google Shopping listing left out has a strictly
\* higher similarity than an included one, and no step of the persistence
\* loop, a rejected create included, changes the ranked list that is returned.
C27_ComparablesRankedBySimilarity ==
    /\ [](AnalyzeProductDone => RankedBySimilarity)
    /\ [][op = "analyzeProduct" /\ pc = "store" =>
             /\ callResult'.comparables = callResult.comparables
             /\ (pc' = "done" =>
                    callResult'.comparableListings = Take(callResult.comparables, 10))]_vars

\* C27 witness: more than twenty listings of differing similarity were offered,
\* one create was rejected, and ten were returned.
C27_Witness ==
    /\ AnalyzeProductDone /\ CreateRejected
    /\ Len(OfferedListings) > 20
    /\ Len(callResult.comparableListings) = 10
    /\ \E k \in DOMAIN OfferedListings :
          /\ LeftOut(OfferedListings[k])
          /\ RLt(SimilarityToProduct(OfferedListings[k]),
                 callResult.comparableListings[1].similarity)
    /\ callResult.comparableListings[1].platform = "google_shopping"

-----------------------------------------------------------------------------
(* getMarketData under scrape failures *)

ScrapeSucceeded(platform) ==
    IF platform = "eBay"
    THEN mdOptions.includeEbay /\ env.ebayScrape = "ok"
    ELSE mdOptions.includeGoogleShopping /\ env.googleScrape = "ok"

\* what the scrape of a platform delivered, nothing if it failed or never ran
Delivered(platform) ==
    IF ScrapeSucceeded(platform)
    THEN (IF platform = "eBay" THEN env.ebayItems ELSE env.googleItems)
    ELSE <<>>

PositiveCount(items) == Cardinality({i \in DOMAIN items : items[i].price > 0})

\* a scrape that was started and has run neither its then nor its catch
Unsettled(platform) == platform \in mdPending

\* the call can go on: a pending scrape settles either way, or all have settled
MarketDataProceeds ==
    \/ mdPending = {}
    \/ \E platform \in mdPending :
          (IF platform = "eBay" THEN env.ebayScrape ELSE env.googleScrape) \in Outcomes

\* C28: getMarketData never rejects and resolves only after every scrape it
\* started has settled; whatever the outcomes and the completion order, a
\* platform is named in summary.platforms exactly when its scrape succeeded, a
\* failed platform contributes an empty array, and summary.totalListings is the
\* number of positive-priced listings of the platforms that succeeded.
C28_MarketDataSurvivesFailures ==
    /\ op = "getMarketData" =>
          /\ pc \in {"call", "awaitAll", "done"}
          /\ pc = "awaitAll" => MarketDataProceeds
    /\ MarketDataDone =>
          /\ ~Unsettled("eBay") /\ ~Unsettled("Google Shopping")
          /\ \A platform \in {"eBay", "Google Shopping"} :
                Includes(mdResults.summary.platforms, platform)
                    <=> ScrapeSucceeded(platform)
          /\ mdResults.ebay = Delivered("eBay")
          /\ mdResults.googleShopping = Delivered("Google Shopping")
          /\ mdResults.summary.totalListings =
                PositiveCount(Delivered("eBay")) + PositiveCount(Delivered("Google Shopping"))

\* C28 witness: both scrapes were started, the Google Shopping scrape
\* succeeded, the eBay scrape failed, and one positive price was counted.
C28_Witness ==
    /\ MarketDataDone
    /\ env.ebayScrape = "throws" /\ mdOptions.includeEbay
    /\ env.googleScrape = "ok" /\ mdOptions.includeGoogleShopping
    /\ mdResults.summary.platforms = <<"Google Shopping">>
    /\ mdResults.summary.totalListings = 1

-----------------------------------------------------------------------------
(* The returned price range and the reach of the labels *)

HighestRatio == RMul(RMul(RMul(Num(1), Rat(9, 10)), Rat(115, 100)), Rat(11, 10))

ReachableLabels == {"Aggressive", "Competitive", "Market Rate", "Premium"}

====
